---- MODULE Spec2Model ----
(***************************************************************************)
(* Godot translation file tool: the perfect-hash string table codec        *)
(* (BinaryTranslate.get_messages / replace), the resource container codec  *)
(* (parse_resource / _write_resource_data / save) and the byte cursor      *)
(* (Reader / Writer) of src/godot_translation_file_tool.py, with the       *)
(* string decompressor of src/smaz_py.py.                                  *)
(*                                                                         *)
(* Bytes are naturals 0..255, byte strings are sequences of bytes, Python  *)
(* str values are sequences of Unicode code points.  Python lists are      *)
(* sequences; a Python index i is position i + 1 of the sequence.          *)
(***************************************************************************)
EXTENDS Integers, Sequences, FiniteSets, TLC

VARIABLES
    hash_table, bucket_table, strings, locale, \* fields of a BinaryTranslate
    resource,   \* its Resource (self.resource), "None" before the file is decoded
    call,       \* the last call: [op, arg, status, ret, m]
    written,    \* the messages of the last replace that returned
    file,       \* the bytes of the file at path
    zstd,       \* whether the zstandard module was imported
    cont,       \* what the file was made from
    out,        \* the bytes save wrote to path
    diag,       \* the diagnostics printed by save
    proc,       \* the process running main: [pc, exit, failed]
    handles     \* the files and buffers opened by the last call and not closed

tableVars == <<hash_table, bucket_table, strings, locale>>
fileVars == <<resource, file, zstd, cont, out, diag, proc, handles>>
vars == <<hash_table, bucket_table, strings, locale, resource, call, written,
          file, zstd, cont, out, diag, proc, handles>>

(***************************************************************************)
(* Bounds of the model.                                                    *)
(***************************************************************************)
NumSlots == 2
MaxElems == 2

\* replacement messages offered to replace(): "" and "e-acute" (2 UTF-8 bytes)
Messages == {<< >>, <<233>>}

Min(a, b) == IF a < b THEN a ELSE b
Max(a, b) == IF a > b THEN a ELSE b

RECURSIVE Flatten(_)
Flatten(ss) == IF ss = << >> THEN << >> ELSE Head(ss) \o Flatten(Tail(ss))

RECURSIVE SumSeq(_)
SumSeq(s) == IF s = << >> THEN 0 ELSE Head(s) + SumSeq(Tail(s))

(***************************************************************************)
(* Python sequence indexing and slicing.                                   *)
(***************************************************************************)
\* position (1-based) of Python index i in a list of length n; 0: IndexError
PyIdx(n, i) ==
    IF i >= 0 /\ i < n THEN i + 1
    ELSE IF i < 0 /\ i >= -n THEN n + i + 1
    ELSE 0

\* s[a:b]
PySlice(s, a, b) ==
    LET n == Len(s)
        lo == IF a < 0 THEN Max(0, a + n) ELSE Min(a, n)
        hi == IF b < 0 THEN Max(0, b + n) ELSE Min(b, n)
    IN  IF hi <= lo THEN << >> ELSE SubSeq(s, lo + 1, hi)

(***************************************************************************)
(* str.encode() / bytes.decode(): UTF-8 over the code points below U+0800. *)
(***************************************************************************)
RECURSIVE encode(_)
encode(m) ==
    IF m = << >> THEN << >>
    ELSE (IF Head(m) < 128 THEN <<Head(m)>>
          ELSE <<192 + (Head(m) \div 64), 128 + (Head(m) % 64)>>)
         \o encode(Tail(m))

\* bytes.decode(): [ok, s]; ok = FALSE is UnicodeDecodeError.  With
\* replace = TRUE an undecodable byte becomes U+FFFD (errors="replace").
\* A byte 0x80..0xBF right after a byte 0xC2..0xDF is the second byte of a
\* two-byte character; every other byte starts a character of its own.
decode(b, repl) ==
    LET second(i) == /\ i > 1 /\ i <= Len(b) /\ b[i] >= 128 /\ b[i] < 192
                     /\ b[i - 1] >= 194 /\ b[i - 1] < 224
        started(c) == c >= 0
        s == SelectSeq([i \in 1..Len(b) |->
                          IF second(i) THEN -1
                          ELSE IF b[i] < 128 THEN b[i]
                          ELSE IF second(i + 1) THEN (b[i] - 192) * 64 + (b[i + 1] - 128)
                          ELSE 65533],
                       started)
    IN  IF ~repl /\ \E k \in 1..Len(s) : s[k] = 65533
        THEN [ok |-> FALSE, s |-> << >>]
        ELSE [ok |-> TRUE, s |-> s]

\* str.strip("\0"): every leading and every trailing NUL goes
RECURSIVE lstrip(_)
lstrip(s) == IF s # << >> /\ Head(s) = 0 THEN lstrip(Tail(s)) ELSE s

RECURSIVE rstrip(_)
rstrip(s) ==
    IF s # << >> /\ s[Len(s)] = 0 THEN rstrip(SubSeq(s, 1, Len(s) - 1)) ELSE s

strip(s) == rstrip(lstrip(s))

(***************************************************************************)
(* smaz_py.decompress.  Smaz_rcb is the head of the upstream codebook.     *)
(***************************************************************************)
Smaz_rcb == << <<32>>, <<116, 104, 101>>, <<101>>, <<116>>, <<97>> >>

RECURSIVE smaz_loop(_, _)
smaz_loop(b, i) ==
    LET n == Len(b)
        c == b[i + 1]
    IN  IF i >= n THEN << >>
        ELSE IF c = 254 THEN
            IF i + 1 >= n THEN << >> ELSE <<b[i + 2]>> \o smaz_loop(b, i + 2)
        ELSE IF c = 255 THEN
            IF i + 1 >= n THEN << >>
            ELSE LET end == i + 2 + b[i + 2] + 1
                 IN  PySlice(b, i + 2, end) \o smaz_loop(b, end)
        ELSE IF c + 1 > Len(Smaz_rcb) THEN << >>
        ELSE Smaz_rcb[c + 1] \o smaz_loop(b, i + 1)

decompress(b) == IF b = << >> THEN << >> ELSE decode(smaz_loop(b, 0), TRUE).s

(***************************************************************************)
(* Perfect-hash string table: Bucket / Elem views of bucket_table.         *)
(***************************************************************************)
NoBucket == [ok |-> FALSE, size |-> 0, func |-> 0, elem |-> << >>]

\* mutant of Bucket: the str_offset and comp_size words read the wrong way round
Bucket_swapped(bt, b) ==
    LET n == Len(bt)
    IN  IF PyIdx(n, b) = 0 THEN NoBucket
        ELSE LET size == bt[PyIdx(n, b)]
             IN  IF \/ PyIdx(n, b + 1) = 0
                    \/ \E i \in 0..(size - 1), d \in 0..3 :
                           PyIdx(n, b + 2 + 4 * i + d) = 0
                 THEN NoBucket
                 ELSE [ok |-> TRUE, size |-> size, func |-> bt[PyIdx(n, b + 1)],
                       elem |-> [i \in 1..size |->
                          [key |-> bt[PyIdx(n, b + 2 + 4 * (i - 1))],
                           str_offset |-> bt[PyIdx(n, b + 2 + 4 * (i - 1) + 2)],
                           comp_size |-> bt[PyIdx(n, b + 2 + 4 * (i - 1) + 1)],
                           uncomp_size |-> bt[PyIdx(n, b + 2 + 4 * (i - 1) + 3)]]]]

\* Bucket(size=bucket_table[b], func=bucket_table[b + 1], elem=[Elem(...) ...])
Bucket(bt, b) ==
    LET n == Len(bt)
    IN  IF PyIdx(n, b) = 0 THEN NoBucket
        ELSE LET size == bt[PyIdx(n, b)]
             IN  IF \/ PyIdx(n, b + 1) = 0
                    \/ \E i \in 0..(size - 1), d \in 0..3 :
                           PyIdx(n, b + 2 + 4 * i + d) = 0
                 THEN NoBucket
                 ELSE [ok |-> TRUE, size |-> size, func |-> bt[PyIdx(n, b + 1)],
                       elem |-> [i \in 1..size |->
                          [key |-> bt[PyIdx(n, b + 2 + 4 * (i - 1))],
                           str_offset |-> bt[PyIdx(n, b + 2 + 4 * (i - 1) + 1)],
                           comp_size |-> bt[PyIdx(n, b + 2 + 4 * (i - 1) + 2)],
                           uncomp_size |-> bt[PyIdx(n, b + 2 + 4 * (i - 1) + 3)]]]]

\* the text get_messages appends for one element
ElemMessage(st, e) ==
    LET buf == PySlice(st, e.str_offset, e.str_offset + e.comp_size)
    IN  IF e.comp_size = e.uncomp_size
        THEN LET d == decode(buf, FALSE) IN [ok |-> d.ok, s |-> strip(d.s)]
        ELSE [ok |-> TRUE, s |-> strip(decompress(buf))]

RECURSIVE gm_slots(_, _, _, _)
gm_slots(ht, bt, st, p) ==
    IF p > Len(ht) THEN [status |-> "ok", msgs |-> << >>]
    ELSE IF ht[p] = -1 THEN gm_slots(ht, bt, st, p + 1)
    ELSE LET bucket == Bucket(bt, ht[p])
             texts == [i \in 1..bucket.size |-> ElemMessage(st, bucket.elem[i])]
             rest == gm_slots(ht, bt, st, p + 1)
         IN  IF ~bucket.ok THEN [status |-> "IndexError", msgs |-> << >>]
             ELSE IF \E i \in 1..bucket.size : ~texts[i].ok
                  THEN [status |-> "UnicodeDecodeError", msgs |-> << >>]
             ELSE IF rest.status # "ok" THEN rest
             ELSE [status |-> "ok",
                   msgs |-> [i \in 1..bucket.size |-> texts[i].s] \o rest.msgs]

\* BinaryTranslate.get_messages
get_messages(ht, bt, st) == gm_slots(ht, bt, st, 1)

\* new_strings and new_str_offsets of replace
new_strings(ms) == Flatten([k \in 1..Len(ms) |-> encode(ms[k]) \o <<0>>])

new_str_offsets(ms) ==
    [k \in 1..Len(ms) |-> Len(new_strings(SubSeq(ms, 1, k - 1)))]

\* a run of list assignments lst[idx] = val, in order
RECURSIVE Assign(_, _)
Assign(lst, as) ==
    IF as = << >> THEN lst
    ELSE Assign([lst EXCEPT ![PyIdx(Len(lst), Head(as)[1])] = Head(as)[2]], Tail(as))

\* mutant of BucketWrites: the size word is not written
BucketWrites_no_size(b, bucket) ==
    <<  <<b + 1, bucket.func>>  >> \o
    Flatten([i \in 1..bucket.size |->
        << <<b + 2 + 4 * (i - 1), bucket.elem[i].key>>,
           <<b + 2 + 4 * (i - 1) + 1, bucket.elem[i].str_offset>>,
           <<b + 2 + 4 * (i - 1) + 2, bucket.elem[i].comp_size>>,
           <<b + 2 + 4 * (i - 1) + 3, bucket.elem[i].uncomp_size>> >>])

\* the writes of one pass of replace's inner loop for the bucket at b
BucketWrites(b, bucket) ==
    <<  <<b, bucket.size>>, <<b + 1, bucket.func>>  >> \o
    Flatten([i \in 1..bucket.size |->
        << <<b + 2 + 4 * (i - 1), bucket.elem[i].key>>,
           <<b + 2 + 4 * (i - 1) + 1, bucket.elem[i].str_offset>>,
           <<b + 2 + 4 * (i - 1) + 2, bucket.elem[i].comp_size>>,
           <<b + 2 + 4 * (i - 1) + 3, bucket.elem[i].uncomp_size>> >>])

\* mutant of rp_elems: n is not advanced, every element takes messages[n]
RECURSIVE rp_elems_noinc(_, _, _, _, _, _, _)
rp_elems_noinc(ms, offs, b, bucket, j, n, nbt) ==
    IF j > bucket.size THEN [status |-> "ok", n |-> n, nbt |-> nbt]
    ELSE IF n >= Len(ms) THEN [status |-> "IndexError", n |-> n, nbt |-> nbt]
    ELSE LET new_msg == encode(ms[n + 1]) \o <<0>>
             e == [bucket.elem[j] EXCEPT !.comp_size = Len(new_msg),
                                         !.uncomp_size = Len(new_msg),
                                         !.str_offset = offs[n + 1]]
             bk == [bucket EXCEPT !.elem[j] = e]
         IN  rp_elems_noinc(ms, offs, b, bk, j + 1, n, Assign(nbt, BucketWrites(b, bk)))

\* mutant of rp_elems: uncomp_size keeps its old value
RECURSIVE rp_elems_keeps_uncomp(_, _, _, _, _, _, _)
rp_elems_keeps_uncomp(ms, offs, b, bucket, j, n, nbt) ==
    IF j > bucket.size THEN [status |-> "ok", n |-> n, nbt |-> nbt]
    ELSE IF n >= Len(ms) THEN [status |-> "IndexError", n |-> n, nbt |-> nbt]
    ELSE LET new_msg == encode(ms[n + 1]) \o <<0>>
             e == [bucket.elem[j] EXCEPT !.comp_size = Len(new_msg),
                                         !.str_offset = offs[n + 1]]
             bk == [bucket EXCEPT !.elem[j] = e]
         IN  rp_elems_keeps_uncomp(ms, offs, b, bk, j + 1, n + 1,
                                   Assign(nbt, BucketWrites(b, bk)))

\* for e in bucket.elem: the j-th element takes messages[n]
RECURSIVE rp_elems(_, _, _, _, _, _, _)
rp_elems(ms, offs, b, bucket, j, n, nbt) ==
    IF j > bucket.size THEN [status |-> "ok", n |-> n, nbt |-> nbt]
    ELSE IF n >= Len(ms) THEN [status |-> "IndexError", n |-> n, nbt |-> nbt]
    ELSE LET new_msg == encode(ms[n + 1]) \o <<0>>
             e == [bucket.elem[j] EXCEPT !.comp_size = Len(new_msg),
                                         !.uncomp_size = Len(new_msg),
                                         !.str_offset = offs[n + 1]]
             bk == [bucket EXCEPT !.elem[j] = e]
         IN  rp_elems(ms, offs, b, bk, j + 1, n + 1, Assign(nbt, BucketWrites(b, bk)))

RECURSIVE rp_slots(_, _, _, _, _, _, _)
rp_slots(ht, bt, ms, offs, p, n, nbt) ==
    IF p > Len(ht) THEN [status |-> "ok", n |-> n, nbt |-> nbt]
    ELSE IF ht[p] = -1 THEN rp_slots(ht, bt, ms, offs, p + 1, n, nbt)
    ELSE LET bucket == Bucket(bt, ht[p])
             r == rp_elems(ms, offs, ht[p], bucket, 1, n, nbt)
         IN  IF ~bucket.ok THEN [status |-> "IndexError", n |-> n, nbt |-> nbt]
             ELSE IF r.status # "ok" THEN r
             ELSE rp_slots(ht, bt, ms, offs, p + 1, r.n, r.nbt)

\* mutant of replace: the fields are assigned as the loops go
replace_in_place(ht, bt, st, ms) ==
    LET r == rp_slots(ht, bt, ms, new_str_offsets(ms), 1, 0, [x \in 1..Len(bt) |-> 0])
    IN  [status |-> r.status, bucket_table |-> r.nbt, strings |-> new_strings(ms)]

\* BinaryTranslate.replace: the status and the fields as the call leaves
\* them; self.bucket_table and self.strings are assigned after the loops
replace(ht, bt, st, ms) ==
    LET r == rp_slots(ht, bt, ms, new_str_offsets(ms), 1, 0, [x \in 1..Len(bt) |-> 0])
    IN  IF r.status = "ok"
        THEN [status |-> "ok", bucket_table |-> r.nbt, strings |-> new_strings(ms)]
        ELSE [status |-> r.status, bucket_table |-> bt, strings |-> st]

(***************************************************************************)
(* The decoded tables the model starts from.  A table is laid out the way  *)
(* the engine writes it: one bucket per non-empty slot, buckets in slot    *)
(* order with seeds 5 + slot (the engine's seeds start at 1), one          *)
(* null-terminated (raw or compressed) slice per element; the              *)
(* slices lie in the blob in element order or in the reverse order (the    *)
(* engine stores them in key order, not in slot order).                    *)
(***************************************************************************)
\* slices an element may reference: raw "e-acute A" and compressed "the",
\* each the encoding of the text and its null
Catalogue ==
    << [slice |-> <<195, 169, 65, 0>>, uncomp |-> 4, text |-> <<233, 65>>],
       [slice |-> <<1, 254, 0>>, uncomp |-> 4, text |-> <<116, 104, 101>>] >>

RECURSIVE ElemsBefore(_, _)
ElemsBefore(shape, p) ==
    IF p <= 1 THEN 0
    ELSE ElemsBefore(shape, p - 1) + (IF shape[p - 1] = -1 THEN 0 ELSE shape[p - 1])

RECURSIVE BucketOffset(_, _)
BucketOffset(shape, p) ==
    IF p <= 1 THEN 0
    ELSE BucketOffset(shape, p - 1)
         + (IF shape[p - 1] = -1 THEN 0 ELSE 2 + 4 * shape[p - 1])

Shapes ==
    {shape \in [1..NumSlots -> -1..MaxElems] :
        ElemsBefore(shape, NumSlots + 1) <= MaxElems}

SliceLens(texts) == [k \in 1..Len(texts) |-> Len(Catalogue[texts[k]].slice)]

MakeStrings(texts, rev) ==
    LET slices == [k \in 1..Len(texts) |-> Catalogue[texts[k]].slice]
    IN  Flatten(IF rev THEN [k \in 1..Len(slices) |-> slices[Len(slices) + 1 - k]]
                ELSE slices)

MakeOffset(texts, rev, k) ==
    IF rev THEN SumSeq(SubSeq(SliceLens(texts), k + 1, Len(texts)))
    ELSE SumSeq(SubSeq(SliceLens(texts), 1, k - 1))

MakeBucketTable(shape, texts, rev) ==
    Flatten([p \in 1..Len(shape) |->
        IF shape[p] = -1 THEN << >>
        ELSE <<shape[p], 5 + p>> \o
             Flatten([i \in 1..shape[p] |->
                LET k == ElemsBefore(shape, p) + i
                IN  <<100 + k, MakeOffset(texts, rev, k),
                      Len(Catalogue[texts[k]].slice), Catalogue[texts[k]].uncomp>>])])

MakeHashTable(shape) ==
    [p \in 1..Len(shape) |-> IF shape[p] = -1 THEN -1 ELSE BucketOffset(shape, p)]

\* Python's None
None == [t |-> "None"]

\* no process has been started
NoProc == [pc |-> "none", exit |-> 0, failed |-> FALSE]

NoCall == [op |-> "none", arg |-> << >>, status |-> "ok", ret |-> << >>, m |-> 0]

(***************************************************************************)
(* The canonical order, stated without the loops of the code: the pairs    *)
(* (slot, element index) of the table in lexicographic order.              *)
(***************************************************************************)
CanonPairs(ht, bt) ==
    UNION {{<<p, i>> : i \in 1..bt[ht[p] + 1]} : p \in {q \in 1..Len(ht) : ht[q] # -1}}

ElemCount(ht, bt) == Cardinality(CanonPairs(ht, bt))

PairBefore(a, b) == a[1] < b[1] \/ (a[1] = b[1] /\ a[2] < b[2])

\* the k-th pair of the canonical order
Canon(ht, bt, k) ==
    CHOOSE a \in CanonPairs(ht, bt) :
        Cardinality({b \in CanonPairs(ht, bt) : PairBefore(b, a)}) = k - 1

\* word d (0 key, 1 str_offset, 2 comp_size, 3 uncomp_size) of the element at pair a
ElemWord(ht, bt, a, d) == bt[ht[a[1]] + 2 + 4 * (a[2] - 1) + d + 1]

(***************************************************************************)
(* Table operations.                                                       *)
(***************************************************************************)
InitTable ==
    /\ \E shape \in Shapes, rev \in BOOLEAN :
         \E texts \in [1..ElemsBefore(shape, NumSlots + 1) -> 1..Len(Catalogue)] :
            /\ hash_table = MakeHashTable(shape)
            /\ bucket_table = MakeBucketTable(shape, texts, rev)
            /\ strings = MakeStrings(texts, rev)
    /\ locale = <<101, 110>>
    /\ call = NoCall
    /\ written = [set |-> FALSE, ms |-> << >>]
    /\ resource = None /\ file = << >> /\ zstd = TRUE
    /\ cont = [kind |-> "table"] /\ out = << >> /\ diag = << >> /\ proc = NoProc
    /\ handles = {}

\* messages = self.get_messages()
GetMessages ==
    \E g \in {get_messages(hash_table, bucket_table, strings)} :
        /\ call' = [op |-> "get_messages", arg |-> << >>, status |-> g.status,
                    ret |-> g.msgs, m |-> ElemCount(hash_table, bucket_table)]
        /\ UNCHANGED <<tableVars, written, fileVars>>

ReplaceWith(ms) ==
    \E r \in {replace(hash_table, bucket_table, strings, ms)} :
        /\ bucket_table' = r.bucket_table
        /\ strings' = r.strings
        /\ call' = [op |-> "replace", arg |-> ms, status |-> r.status,
                    ret |-> << >>, m |-> ElemCount(hash_table, bucket_table)]
        /\ written' = IF r.status = "ok" THEN [set |-> TRUE, ms |-> ms] ELSE written
        /\ UNCHANGED <<hash_table, locale, fileVars>>

\* self.replace(messages), the list one shorter than, as long as or one
\* longer than the table's element count
Replace ==
    \E m \in {ElemCount(hash_table, bucket_table)} :
        \E n \in Max(0, m - 1)..(m + 1) : \E ms \in [1..n -> Messages] :
            ReplaceWith(ms)

\* self.replace(self.get_messages()): an import of the untranslated export
Reimport ==
    \E g \in {get_messages(hash_table, bucket_table, strings)} :
        /\ g.status = "ok"
        /\ ReplaceWith(g.msgs)

NextTable == GetMessages \/ Replace \/ Reimport

Spec == InitTable /\ [][NextTable]_vars

(***************************************************************************)
(* Claims about the string table (specification Spec).                     *)
(***************************************************************************)
\* the decoded text of the element at pair a, before any trimming
ElemText(ht, bt, st, a) ==
    LET off == ElemWord(ht, bt, a, 1)
        buf == PySlice(st, off, off + ElemWord(ht, bt, a, 2))
    IN  IF ElemWord(ht, bt, a, 2) = ElemWord(ht, bt, a, 3)
        THEN decode(buf, FALSE).s ELSE decompress(buf)

TrimNull(t) ==
    IF t # << >> /\ t[Len(t)] = 0 THEN SubSeq(t, 1, Len(t) - 1) ELSE t

RECURSIVE ConcatNull(_)
ConcatNull(ms) ==
    IF ms = << >> THEN << >> ELSE encode(Head(ms)) \o <<0>> \o ConcatNull(Tail(ms))

\* sum of (byte length + 1) of the first k messages
RECURSIVE OffsetAfter(_, _)
OffsetAfter(ms, k) ==
    IF k = 0 THEN 0 ELSE OffsetAfter(ms, k - 1) + Len(encode(ms[k])) + 1

ExactReplace(c) == c.op = "replace" /\ Len(c.arg) = c.m

\* C1: get_messages() returns exactly M strings, M the number of elements of
\* the buckets of the non-empty slots; the k-th string is the text of the
\* k-th element in the order (slot index, position in the bucket), without
\* its trailing null.
C1_GetMessagesCanonical ==
    call.op = "get_messages" =>
        /\ call.status = "ok"
        /\ Len(call.ret) = ElemCount(hash_table, bucket_table)
        /\ \A k \in 1..Len(call.ret) :
              call.ret[k] = TrimNull(ElemText(hash_table, bucket_table, strings,
                                              Canon(hash_table, bucket_table, k)))

\* a call on a table with an empty slot and a two-element bucket holding a
\* raw and a compressed text
C1_Witness ==
    /\ call.op = "get_messages" /\ call.status = "ok"
    /\ \E p \in 1..Len(hash_table) : hash_table[p] = -1
    /\ \E p \in 1..Len(hash_table) :
          hash_table[p] # -1 /\ bucket_table[hash_table[p] + 1] = 2
    /\ call.ret = << <<233, 65>>, <<116, 104, 101>> >>

\* C2: after replace(ms) with exactly M messages, get_messages() returns ms.
C2_ReplaceThenGet ==
    (call.op = "get_messages" /\ written.set /\ Len(written.ms) = call.m) =>
        (call.status = "ok" /\ call.ret = written.ms)

\* two one-element buckets, replace of two different messages, then
\* get_messages
C2_Witness ==
    /\ call.op = "get_messages" /\ written.set
    /\ written.ms = << <<233>>, << >> >>
    /\ call.ret = written.ms
    /\ \A p \in 1..Len(hash_table) :
          hash_table[p] # -1 /\ bucket_table[hash_table[p] + 1] = 1

\* C3: after replace(ms) with exactly M messages, strings is the
\* concatenation of the messages' bytes, each followed by one null, and the
\* k-th element in canonical order has str_offset the sum of (byte length
\* + 1) of the messages before it and comp_size = uncomp_size = byte
\* length of ms[k] + 1.
C3_ReplaceLayout ==
    ExactReplace(call) =>
        /\ call.status = "ok"
        /\ strings = ConcatNull(call.arg)
        /\ \A k \in 1..call.m :
              LET a == Canon(hash_table, bucket_table, k)
              IN  /\ ElemWord(hash_table, bucket_table, a, 1) = OffsetAfter(call.arg, k - 1)
                  /\ ElemWord(hash_table, bucket_table, a, 2) = Len(encode(call.arg[k])) + 1
                  /\ ElemWord(hash_table, bucket_table, a, 3) = Len(encode(call.arg[k])) + 1

\* a replace of two messages of different byte lengths on a two-element table
C3_Witness ==
    /\ ExactReplace(call) /\ call.status = "ok"
    /\ call.arg = << <<233>>, << >> >>
    /\ strings = <<195, 169, 0, 0>>

\* the size, func and key words of the buckets of the non-empty slots of
\* table (ht, bt) are the same in bt2
BucketFrameKept(ht, bt, bt2) ==
    /\ \A p \in 1..Len(ht) : ht[p] # -1 =>
          /\ bt2[ht[p] + 1] = bt[ht[p] + 1]
          /\ bt2[ht[p] + 2] = bt[ht[p] + 2]
    /\ \A a \in CanonPairs(ht, bt) : ElemWord(ht, bt2, a, 0) = ElemWord(ht, bt, a, 0)

\* the str_offset, comp_size and uncomp_size words are the same in bt2
ElemFieldsKept(ht, bt, bt2) ==
    \A a \in CanonPairs(ht, bt), d \in 1..3 :
        ElemWord(ht, bt2, a, d) = ElemWord(ht, bt, a, d)

\* C4: replace(ms) with exactly M messages leaves hash_table and the size,
\* func and key words of every bucket of a non-empty slot (a bucket of size
\* 0 included) as they were.
C4_ReplaceKeepsFrame ==
    [][(ExactReplace(call') /\ call'.status = "ok") =>
          /\ hash_table' = hash_table
          /\ Len(bucket_table') = Len(bucket_table)
          /\ BucketFrameKept(hash_table, bucket_table, bucket_table')]_vars

\* C5: replace(ms) fails whenever len(ms) differs from M, for a shorter and
\* for a longer ms.
C5_WrongLengthFails ==
    (call.op = "replace" /\ Len(call.arg) # call.m) => call.status # "ok"

AllUncompressed(ht, bt) ==
    \A a \in CanonPairs(ht, bt) : ElemWord(ht, bt, a, 2) = ElemWord(ht, bt, a, 3)

\* C6: on a table whose elements are all uncompressed, replace(get_messages())
\* leaves strings, every element's str_offset, comp_size and uncomp_size,
\* hash_table and every func, size and key word unchanged.
C6_ReimportIsIdentity ==
    [][(/\ call'.op = "replace"
        /\ AllUncompressed(hash_table, bucket_table)
        /\ get_messages(hash_table, bucket_table, strings).status = "ok"
        /\ call'.arg = get_messages(hash_table, bucket_table, strings).msgs) =>
          /\ call'.status = "ok"
          /\ strings' = strings
          /\ hash_table' = hash_table
          /\ ElemFieldsKept(hash_table, bucket_table, bucket_table')
          /\ BucketFrameKept(hash_table, bucket_table, bucket_table')]_vars

\* C19: a replace call that fails leaves hash_table, bucket_table and
\* strings as they were before the call, and get_messages() returns after
\* it what it returned before it.
C19_FailedReplaceKeepsTables ==
    [][(call'.op = "replace" /\ call'.status # "ok") =>
          /\ hash_table' = hash_table
          /\ bucket_table' = bucket_table
          /\ strings' = strings
          /\ get_messages(hash_table', bucket_table', strings')
                 = get_messages(hash_table, bucket_table, strings)]_vars

\* a replace given one message for a table of two elements has failed after
\* its loop took the first, on a table that was replaced before; the table
\* still reads as the two messages written then
C19_Witness ==
    /\ call.op = "replace" /\ call.status = "IndexError"
    /\ call.m = 2 /\ call.arg = << <<233>> >>
    /\ written.set /\ written.ms = << << >>, <<233>> >>
    /\ get_messages(hash_table, bucket_table, strings).msgs = written.ms

(***************************************************************************)
(* Byte cursor.  A 32-bit word is held as a signed integer: an unsigned    *)
(* word at or above 2^31 is held as its value minus 2^32.  The reader      *)
(* state rs is [pos, err, be, dbl, names]: the file position, the first    *)
(* exception raised ("" while none), Reader.big_endian,                    *)
(* Reader.real_is_double and the number of _parse_name calls begun.        *)
(* Once err is set every later read leaves rs alone.                       *)
(***************************************************************************)
Reader(pos) == [pos |-> pos, err |-> "", be |-> FALSE, dbl |-> FALSE, names |-> 0]

Fail(rs, e) == IF rs.err = "" THEN [rs EXCEPT !.err = e] ELSE rs

\* the low 31 bits of a word; its bit 31 is set when it is held negative
Low31(x) == IF x < 0 THEN (x + 2147483647) + 1 ELSE x

\* x & bit, for a single bit below bit 31
HasBit(x, bit) == (Low31(x) \div bit) % 2 = 1

\* struct.unpack of 4 bytes as "<i" / ">i" (and "I", "l", "L": same bits)
Word(b, be) ==
    IF be
    THEN b[4] + 256 * b[3] + 65536 * b[2]
         + 16777216 * (IF b[1] >= 128 THEN b[1] - 256 ELSE b[1])
    ELSE b[1] + 256 * b[2] + 65536 * b[3]
         + 16777216 * (IF b[4] >= 128 THEN b[4] - 256 ELSE b[4])

\* struct.pack("<i" / "<I", x)
WordBytes(x, be) ==
    LET l == Low31(x)
        q == <<l % 256, (l \div 256) % 256, (l \div 65536) % 256,
               (l \div 16777216) + (IF x < 0 THEN 128 ELSE 0)>>
    IN  IF be THEN <<q[4], q[3], q[2], q[1]>> ELSE q

\* the bytes from the position up to end, the position moved there
read_upto(f, rs, end) ==
    [v |-> SubSeq(f, rs.pos + 1, end),
     rs |-> IF end > rs.pos THEN [rs EXCEPT !.pos = end] ELSE rs]

\* file.read(n); a length at or above 2^31 reads to the end
read(f, rs, n) ==
    IF rs.err # "" THEN [v |-> << >>, rs |-> rs]
    ELSE read_upto(f, rs, IF n < 0 \/ rs.pos + n > Len(f) THEN Len(f) ELSE rs.pos + n)

\* Reader.skip
skip(f, rs, n) == read(f, rs, n).rs

\* Reader.seek; an offset at or above 2^31 lies past the end
seek(f, rs, offset) ==
    IF rs.err # "" THEN rs
    ELSE [rs EXCEPT !.pos = IF offset < 0 THEN Len(f) + 1 ELSE offset]

\* struct.unpack_from(fmt, d) on the bytes d.v just read, for a format of
\* `need` bytes
unpack_from(d, need) ==
    IF Len(d.v) < need THEN [v |-> << >>, rs |-> Fail(d.rs, "struct.error")] ELSE d

\* struct.unpack_from(fmt, self.file.read(n))
Unpack(f, rs, n, need) == unpack_from(read(f, rs, n), need)

\* the integer of the first 4 bytes unpacked, 0 once an exception is raised
word_of(d, be) == [v |-> IF d.rs.err = "" THEN Word(d.v, be) ELSE 0, rs |-> d.rs]

get_i32(f, rs) == word_of(Unpack(f, rs, 4, 4), rs.be)

get_u32(f, rs) == get_i32(f, rs)

\* "<l" / ">l" and "<L" / ">L" are 4-byte formats: 8 bytes are read, the
\* first 4 are unpacked
get_i64(f, rs) == word_of(Unpack(f, rs, 8, 4), rs.be)

get_u64(f, rs) == get_i64(f, rs)

get_u16(f, rs) ==
    LET d == Unpack(f, rs, 2, 2)
    IN  [v |-> IF d.rs.err # "" THEN 0
               ELSE IF rs.be THEN 256 * d.v[1] + d.v[2] ELSE d.v[1] + 256 * d.v[2],
         rs |-> d.rs]

\* get_f32 / get_f64: the value is not kept, the bytes are consumed
get_f32(f, rs) == Unpack(f, rs, 4, 4).rs
get_f64(f, rs) == Unpack(f, rs, 8, 8).rs

\* get_u8: the byte read, as the bytes object of length 1 it is returned as
get_u8(f, rs) == Unpack(f, rs, 1, 1)

get_real(f, rs) == IF rs.dbl THEN get_f64(f, rs) ELSE get_f32(f, rs)

\* d.v[:-1].decode() of the bytes d.v just read
DropLastDecode(d) ==
    LET s == decode(PySlice(d.v, 0, -1), FALSE)
    IN  [v |-> s.s, rs |-> IF s.ok THEN d.rs ELSE Fail(d.rs, "UnicodeDecodeError")]

\* self.file.read(length) for the length word just read
read_length(f, length) == read(f, length.rs, length.v)

\* Reader.get_unicode
get_unicode(f, rs) == DropLastDecode(read_length(f, get_u32(f, rs)))

\* k reads of w bytes each, the values dropped
RECURSIVE Consume(_, _, _, _)
Consume(f, rs, k, w) ==
    IF k <= 0 \/ rs.err # "" THEN rs
    ELSE Consume(f, Unpack(f, rs, w, w).rs, k - 1, w)

(***************************************************************************)
(* Variant value decoder.  A decoded value is a record tagged by t:        *)
(* "None", "bool", "int", "float" (value not kept), "str" (code points),   *)
(* "bytes", "list" (of values), "dict" (of <<key, value>> pairs).          *)
(* ctx is [fmt, smap]: format_version and string_map of the enclosing      *)
(* parse_resource call.                                                    *)
(***************************************************************************)
VARIANT_NIL == 1
VARIANT_BOOL == 2
VARIANT_INT == 3
VARIANT_FLOAT == 4
VARIANT_STRING == 5
VARIANT_COLOR == 20
VARIANT_NODE_PATH == 22
VARIANT_RID == 23
VARIANT_OBJECT == 24
VARIANT_DICTIONARY == 26
VARIANT_ARRAY == 30
VARIANT_PACKED_BYTE_ARRAY == 31
VARIANT_PACKED_INT32_ARRAY == 32
VARIANT_PACKED_FLOAT32_ARRAY == 33
VARIANT_PACKED_STRING_ARRAY == 34
VARIANT_PACKED_VECTOR3_ARRAY == 35
VARIANT_PACKED_COLOR_ARRAY == 36
VARIANT_PACKED_VECTOR2_ARRAY == 37
VARIANT_INT64 == 40
VARIANT_DOUBLE == 41
VARIANT_STRING_NAME == 44
VARIANT_PACKED_INT64_ARRAY == 48
VARIANT_PACKED_FLOAT64_ARRAY == 49
VARIANT_PACKED_VECTOR4_ARRAY == 53
OBJECT_EXTERNAL_RESOURCE == 1
OBJECT_INTERNAL_RESOURCE == 2
OBJECT_EXTERNAL_RESOURCE_INDEX == 3
FORMAT_VERSION_NO_NODEPATH_PROPERTY == 3

\* kinds decoded as a fixed run of get_real() calls: VECTOR2, RECT2, VECTOR3,
\* PLANE, QUATERNION, AABB, BASIS, TRANSFORM3D, TRANSFORM2D, VECTOR4, PROJECTION
RealKinds == (10 :> 2) @@ (11 :> 4) @@ (12 :> 3) @@ (13 :> 4) @@ (14 :> 4) @@
             (15 :> 6) @@ (16 :> 9) @@ (17 :> 12) @@ (18 :> 6) @@ (50 :> 4) @@
             (52 :> 16)

\* kinds decoded as a fixed run of get_i32() calls: VECTOR2I, RECT2I,
\* VECTOR3I, VECTOR4I
IntKinds == (45 :> 2) @@ (46 :> 4) @@ (47 :> 3) @@ (51 :> 4)

Str(v) == [t |-> "str", v |-> v]

\* range(length) for an unsigned word
Count(x) == IF x < 0 THEN 2147483647 ELSE x

\* [get() for _ in range(length)] over items of w bytes: the items' bytes
PackedRun(f, rs, length, w) ==
    LET n == Count(length)
    IN  IF rs.err # "" THEN [v |-> << >>, rs |-> rs]
        ELSE IF n > (Len(f) - rs.pos) \div w /\ n > 0
             THEN [v |-> << >>, rs |-> Fail(rs, "struct.error")]
        ELSE [v |-> [i \in 1..n |-> SubSeq(f, rs.pos + (i - 1) * w + 1, rs.pos + i * w)],
              rs |-> [rs EXCEPT !.pos = rs.pos + n * w]]

\* the list of integers a packed run holds
PackedInts(run, be) ==
    [v |-> [t |-> "list", v |-> [i \in 1..Len(run.v) |-> Word(run.v[i], be)]],
     rs |-> run.rs]

\* the list of floats a packed run holds, the values not kept
PackedFloats(run) ==
    [v |-> [t |-> "list", v |-> [i \in 1..Len(run.v) |-> [t |-> "float"]]],
     rs |-> run.rs]

\* mutant of subname_count: the subname count of an old format is not raised
subname_count_noadjust(raw, fmt) == raw % 32768

\* subname_count &= 0x7FFF; if format_version < 3: subname_count += 1
subname_count(raw, fmt) ==
    IF fmt < FORMAT_VERSION_NO_NODEPATH_PROPERTY THEN (raw % 32768) + 1 ELSE raw % 32768

\* _parse_name, id being the word just read
name_of(f, ctx, id) ==
    IF id.rs.err # "" THEN [v |-> << >>, rs |-> id.rs]
    ELSE IF id.v < 0 THEN DropLastDecode(read(f, id.rs, Low31(id.v)))
    ELSE IF id.v >= Len(ctx.smap) THEN [v |-> << >>, rs |-> Fail(id.rs, "IndexError")]
    ELSE [v |-> ctx.smap[id.v + 1], rs |-> id.rs]
parse_name(f, rs, ctx) ==
    IF rs.err # "" THEN [v |-> << >>, rs |-> rs]
    ELSE name_of(f, ctx, get_u32(f, [rs EXCEPT !.names = rs.names + 1]))

\* for _ in range(n): _parse_name()
RECURSIVE parse_names(_, _, _, _)
parse_names(f, rs, ctx, n) ==
    IF n <= 0 \/ rs.err # "" THEN rs
    ELSE parse_names(f, parse_name(f, rs, ctx).rs, ctx, n - 1)

\* for _ in range(n): r.get_unicode(), the values kept
RECURSIVE get_unicodes(_, _, _)
get_unicodes(f, rs, n) ==
    IF n <= 0 \/ rs.err # "" THEN [v |-> << >>, rs |-> rs]
    ELSE LET a == get_unicode(f, rs)
             rest == get_unicodes(f, a.rs, n - 1)
         IN  [v |-> <<Str(a.v)>> \o rest.v, rs |-> rest.rs]

\* d[key] = val on a dict held as a sequence of pairs
DictPut(d, key, val) ==
    IF \E i \in 1..Len(d) : d[i][1] = key
    THEN [i \in 1..Len(d) |-> IF d[i][1] = key THEN <<key, val>> ELSE d[i]]
    ELSE Append(d, <<key, val>>)

RECURSIVE parse_value(_, _, _)

\* arr.append(_parse_value()), n times; a is the value just read
RECURSIVE parse_array(_, _, _, _)
array_tail(f, ctx, n, a) ==
    LET rest == parse_array(f, a.rs, ctx, n - 1)
    IN  [v |-> <<a.v>> \o rest.v, rs |-> rest.rs]
parse_array(f, rs, ctx, n) ==
    IF n <= 0 \/ rs.err # "" THEN [v |-> << >>, rs |-> rs]
    ELSE array_tail(f, ctx, n, parse_value(f, rs, ctx))

\* key = _parse_value(); val = _parse_value(); if key is not None: d[key] = val
RECURSIVE parse_dict(_, _, _, _, _)
dict_val(f, ctx, n, d, key) ==
    LET val == parse_value(f, key.rs, ctx)
    IN  IF val.rs.err # "" THEN [v |-> d, rs |-> val.rs]
        ELSE IF key.v.t = "None" THEN parse_dict(f, val.rs, ctx, n - 1, d)
        ELSE IF key.v.t \in {"list", "dict"}
             THEN [v |-> d, rs |-> Fail(val.rs, "TypeError")]
        ELSE parse_dict(f, val.rs, ctx, n - 1, DictPut(d, key.v, val.v))
parse_dict(f, rs, ctx, n, d) ==
    IF n <= 0 \/ rs.err # "" THEN [v |-> d, rs |-> rs]
    ELSE dict_val(f, ctx, n, d, parse_value(f, rs, ctx))

\* a value made of x.v, read up to x.rs
Tagged(t, x) == [v |-> [t |-> t, v |-> x.v], rs |-> x.rs]

\* the node-path branch, after the first 16-bit count
node_path(f, ctx, name_count) ==
    LET sub == get_u16(f, name_count.rs)
    IN  [v |-> None,
         rs |-> parse_names(f, parse_names(f, sub.rs, ctx, name_count.v), ctx,
                            subname_count(sub.v, ctx.fmt))]

\* the byte-array branch: the bytes, then the padding to a multiple of 4
byte_array(f, length, a) ==
    [v |-> IF a.rs.err = ""
           THEN [t |-> "bytes", v |-> [i \in 1..Len(a.v) |-> a.v[i][1]]]
           ELSE None,
     rs |-> IF 4 - (Low31(length) % 4) < 4
            THEN Consume(f, a.rs, 4 - (Low31(length) % 4), 1) ELSE a.rs]

\* the branches of _parse_value: r is the reader after the type word t, w32
\* the 32-bit word that follows it
typed_value(f, r, ctx, t, w32) ==
    IF t = VARIANT_NIL THEN [v |-> None, rs |-> r]
    ELSE IF t = VARIANT_BOOL THEN [v |-> [t |-> "bool", v |-> w32.v # 0], rs |-> w32.rs]
    ELSE IF t = VARIANT_INT THEN Tagged("int", w32)
    ELSE IF t = VARIANT_INT64 THEN Tagged("int", get_i64(f, r))
    ELSE IF t = VARIANT_FLOAT THEN [v |-> [t |-> "float"], rs |-> get_f32(f, r)]
    ELSE IF t = VARIANT_DOUBLE THEN [v |-> [t |-> "float"], rs |-> get_f64(f, r)]
    ELSE IF t \in {VARIANT_STRING, VARIANT_STRING_NAME} THEN Tagged("str", get_unicode(f, r))
    ELSE IF t \in DOMAIN RealKinds THEN
        [v |-> None, rs |-> Consume(f, r, RealKinds[t], IF r.dbl THEN 8 ELSE 4)]
    ELSE IF t \in DOMAIN IntKinds THEN
        [v |-> None, rs |-> Consume(f, r, IntKinds[t], 4)]
    ELSE IF t = VARIANT_COLOR THEN [v |-> None, rs |-> Consume(f, r, 4, 4)]
    ELSE IF t = VARIANT_NODE_PATH THEN node_path(f, ctx, get_u16(f, r))
    ELSE IF t = VARIANT_RID THEN [v |-> None, rs |-> w32.rs]
    ELSE IF t = VARIANT_OBJECT THEN
        IF w32.rs.err # "" THEN [v |-> None, rs |-> w32.rs]
        ELSE IF w32.v = OBJECT_EXTERNAL_RESOURCE
             THEN [v |-> None, rs |-> get_unicodes(f, w32.rs, 2).rs]
        ELSE IF w32.v \in {OBJECT_INTERNAL_RESOURCE, OBJECT_EXTERNAL_RESOURCE_INDEX}
             THEN [v |-> None, rs |-> get_u32(f, w32.rs).rs]
        ELSE [v |-> None, rs |-> w32.rs]
    ELSE IF t = VARIANT_DICTIONARY
         THEN Tagged("dict", parse_dict(f, w32.rs, ctx, Low31(w32.v), << >>))
    ELSE IF t = VARIANT_ARRAY THEN Tagged("list", parse_array(f, w32.rs, ctx, Low31(w32.v)))
    ELSE IF t = VARIANT_PACKED_BYTE_ARRAY
         THEN byte_array(f, w32.v, PackedRun(f, w32.rs, w32.v, 1))
    ELSE IF t = VARIANT_PACKED_INT32_ARRAY THEN
        PackedInts(PackedRun(f, w32.rs, w32.v, 4), r.be)
    ELSE IF t = VARIANT_PACKED_INT64_ARRAY THEN
        PackedInts(PackedRun(f, w32.rs, w32.v, 8), r.be)
    ELSE IF t = VARIANT_PACKED_FLOAT32_ARRAY THEN
        PackedFloats(PackedRun(f, w32.rs, w32.v, 4))
    ELSE IF t = VARIANT_PACKED_FLOAT64_ARRAY THEN
        PackedFloats(PackedRun(f, w32.rs, w32.v, 8))
    ELSE IF t = VARIANT_PACKED_STRING_ARRAY
         THEN Tagged("list", get_unicodes(f, w32.rs, Count(w32.v)))
    ELSE IF t = VARIANT_PACKED_VECTOR2_ARRAY THEN
        [v |-> None, rs |-> PackedRun(f, w32.rs, w32.v, 2 * (IF r.dbl THEN 8 ELSE 4)).rs]
    ELSE IF t = VARIANT_PACKED_VECTOR3_ARRAY THEN
        [v |-> None, rs |-> PackedRun(f, w32.rs, w32.v, 3 * (IF r.dbl THEN 8 ELSE 4)).rs]
    ELSE IF t = VARIANT_PACKED_COLOR_ARRAY THEN
        [v |-> None, rs |-> PackedRun(f, w32.rs, w32.v, 16).rs]
    ELSE IF t = VARIANT_PACKED_VECTOR4_ARRAY THEN
        [v |-> None, rs |-> PackedRun(f, w32.rs, w32.v, 4 * (IF r.dbl THEN 8 ELSE 4)).rs]
    ELSE [v |-> None, rs |-> r]

\* _parse_value: prop_type = r.get_u32(), then the branch of that type
parse_value(f, rs, ctx) ==
    LET prop_type == get_u32(f, rs)
    IN  IF prop_type.rs.err # "" THEN [v |-> None, rs |-> prop_type.rs]
        ELSE typed_value(f, prop_type.rs, ctx, prop_type.v, get_u32(f, prop_type.rs))

(***************************************************************************)
(* Block codecs (zlib, zstandard, gzip).  A compressed block is modelled   *)
(* as the codec's first magic byte followed by the plain bytes; a codec    *)
(* rejects a block that does not start with its byte.  Mode 0 is FastLZ,   *)
(* which only the engine writes.                                           *)
(***************************************************************************)
CodecByte == (0 :> 70) @@ (1 :> 120) @@ (2 :> 40) @@ (3 :> 31)

codec_compress(mode, data) == <<CodecByte[mode]>> \o data

codec_decompress(mode, chunk) ==
    IF chunk # << >> /\ chunk[1] = CodecByte[mode]
    THEN [ok |-> TRUE, data |-> Tail(chunk)]
    ELSE [ok |-> FALSE, data |-> << >>]

RSRC == <<82, 83, 82, 67>>
RSCC == <<82, 83, 67, 67>>

\* struct.unpack("<I", file_obj.read(4))[0]: exactly 4 bytes are needed, and
\* read(4) returns no more
unpack_I(f, rs) == word_of(Unpack(f, rs, 4, 4), FALSE)

\* struct.unpack("<Q", file_obj.read(8))[0]: exactly 8 bytes are needed; a
\* value at or above 2^31 is held as 2^31 - 1 (it only ever bounds a loop
\* over the file)
unpack_Q(f, rs) ==
    LET d == Unpack(f, rs, 8, 8)
    IN  [v |-> IF d.rs.err # "" THEN 0
               ELSE IF Word(SubSeq(d.v, 5, 8), FALSE) # 0 \/ Word(d.v, FALSE) < 0
               THEN 2147483647 ELSE Word(d.v, FALSE),
         rs |-> d.rs]

\* block_sizes.append(struct.unpack("<I", file_obj.read(4))[0]), n times
RECURSIVE read_block_sizes(_, _, _)
read_block_sizes(f, rs, n) ==
    IF n <= 0 \/ rs.err # "" THEN [v |-> << >>, rs |-> rs]
    ELSE LET a == unpack_I(f, rs)
             rest == read_block_sizes(f, a.rs, n - 1)
         IN  [v |-> <<a.v>> \o rest.v, rs |-> rest.rs]

\* for size in block_sizes: decompressed_buffer.write(decompress(read(size)))
RECURSIVE read_blocks(_, _, _, _, _)
read_blocks(f, rs, mode, sizes, e) ==
    IF sizes = << >> \/ rs.err # "" THEN [v |-> << >>, rs |-> rs]
    ELSE LET chunk == read(f, rs, Head(sizes))
             d == codec_decompress(mode, chunk.v)
             rest == read_blocks(f, chunk.rs, mode, Tail(sizes), e)
         IN  IF ~d.ok THEN [v |-> << >>, rs |-> Fail(chunk.rs, e)]
             ELSE [v |-> d.data \o rest.v, rs |-> rest.rs]

\* mutant of BlockCount: the quotient rounded down
BlockCount_floor(total, bs) ==
    IF total = 0 THEN 0
    ELSE IF bs < 0 THEN 0
    ELSE Count(total) \div bs

\* (total_size + block_size - 1) // block_size for unsigned words
BlockCount(total, bs) ==
    IF total = 0 THEN 0
    ELSE IF bs < 0 THEN 1
    ELSE ((Count(total) - 1) \div bs) + 1

\* h with field k set to the value just read and the reader moved on
Got(h, k, r) == [h EXCEPT ![k] = r.v, !.rs = r.rs]

\* h.k = the value read next in format fmt: a Reader.get_<fmt>() call, or
\* struct.unpack of "<I" or "<Q" on a read of the file
Get(f, h, k, fmt) ==
    Got(h, k, IF fmt = "i32" THEN get_i32(f, h.rs)
              ELSE IF fmt = "u32" THEN get_u32(f, h.rs)
              ELSE IF fmt = "i64" THEN get_i64(f, h.rs)
              ELSE IF fmt = "u64" THEN get_u64(f, h.rs)
              ELSE IF fmt = "unicode" THEN get_unicode(f, h.rs)
              ELSE IF fmt = "<I" THEN unpack_I(f, h.rs)
              ELSE unpack_Q(f, h.rs))

\* the wrapper header read again from pos_backup, in the compact or the
\* standard layout
rscc_fields(f, h) ==
    IF h.rs.err # "" THEN h
    ELSE IF h.val1 = 2 /\ h.val2 = 4096
    THEN Get(f, Get(f, Get(f,
             [h EXCEPT !.compact = TRUE, !.rs = Reader(4)],
             "mode", "<I"), "block_size", "<I"), "total_size", "<I")
    ELSE Get(f, Get(f, Get(f, Get(f,
             [h EXCEPT !.rs = Reader(4)],
             "version", "<I"), "mode", "<I"), "block_size", "<I"), "total_size", "<Q")

\* block_count and the block size table
rscc_sizes(f, h) ==
    IF h.rs.err # "" THEN [v |-> << >>, rs |-> h.rs]
    ELSE IF h.block_size = 0 THEN [v |-> << >>, rs |-> Fail(h.rs, "ZeroDivisionError")]
    ELSE read_block_sizes(f, h.rs, BlockCount(h.total_size, h.block_size))

\* the branch of the mode
rscc_blocks(f, z, mode, sizes) ==
    IF mode = 1 THEN read_blocks(f, sizes.rs, 1, sizes.v, "zlib.error")
    ELSE IF mode = 2 THEN
        IF z THEN read_blocks(f, sizes.rs, 2, sizes.v, "zstd.ZstdError")
        ELSE [v |-> << >>, rs |-> Fail(sizes.rs, "ImportError")]
    ELSE IF mode = 3 THEN read_blocks(f, sizes.rs, 3, sizes.v, "gzip.BadGzipFile")
    ELSE [v |-> << >>, rs |-> Fail(sizes.rs, "ValueError")]

\* buffer tells whether decompressed_buffer was created: the block size
\* table was read without an exception
unwrapped(h, blocks, buffer) ==
    [err |-> blocks.rs.err, data |-> blocks.v, compact |-> h.compact, mode |-> h.mode,
     buffer |-> buffer]

rscc_body(f, z, h) ==
    LET sizes == rscc_sizes(f, h)
    IN  unwrapped(h, rscc_blocks(f, z, h.mode, sizes), sizes.rs.err = "")

\* the RSCC branch of parse_resource, val1 and val2 peeked at first:
\* [err, data, compact, mode, buffer]
unwrap(f, z) ==
    rscc_body(f, z,
        rscc_fields(f,
            Get(f, Get(f, [rs |-> Reader(4), val1 |-> 0, val2 |-> 0,
                           compact |-> FALSE, version |-> 1, mode |-> 0,
                           block_size |-> 0, total_size |-> 0],
                       "val1", "<I"), "val2", "<I")))


(***************************************************************************)
(* parse_resource.  Texts are sequences of code points.                    *)
(***************************************************************************)
FORMAT_FLAG_NAMED_SCENE_IDS == 1
FORMAT_FLAG_UIDS == 2
FORMAT_FLAG_REAL_T_IS_DOUBLE == 4
FORMAT_FLAG_HAS_SCRIPT_CLASS == 8
RESERVED_FIELDS == 11

s_locale == <<108, 111, 99, 97, 108, 101>>  \* "locale"
s_hash_table == <<104, 97, 115, 104, 95, 116, 97, 98, 108, 101>>  \* "hash_table"
s_bucket_table == <<98, 117, 99, 107, 101, 116, 95, 116, 97, 98, 108, 101>>  \* "bucket_table"
s_strings == <<115, 116, 114, 105, 110, 103, 115>>  \* "strings"
s_meta == <<95, 95, 109, 101, 116, 97, 95, 95>>  \* "__meta__"
s_skip_save == <<95, 115, 107, 105, 112, 95, 115, 97, 118, 101, 95>>  \* "_skip_save_"
s_local0 == <<108, 111, 99, 97, 108, 58, 47, 47, 48>>  \* "local://0"
s_en == <<101, 110>>  \* "en"

\* "PHashTranslation", "Translation", "OptimizedTranslation"
ValidClasses == {<<80, 72, 97, 115, 104, 84, 114, 97, 110, 115, 108, 97, 116, 105, 111, 110>>,
                 <<84, 114, 97, 110, 115, 108, 97, 116, 105, 111, 110>>,
                 <<79, 112, 116, 105, 109, 105, 122, 101, 100, 84, 114, 97, 110, 115, 108, 97, 116, 105, 111, 110>>}

DictHas(d, key) == \E i \in 1..Len(d) : d[i][1] = key
DictGet(d, key) == d[CHOOSE i \in 1..Len(d) : d[i][1] = key][2]

\* a in b for two texts
IsSubstring(a, b) ==
    \E i \in 0..(Len(b) - Len(a)) : SubSeq(b, i + 1, i + Len(a)) = a

\* "_skip_save_" in properties.get("__meta__", {})
skip_marked(props) ==
    LET meta == IF DictHas(props, s_meta) THEN DictGet(props, s_meta)
                ELSE [t |-> "dict", v |-> << >>]
    IN  IF meta.t = "dict" THEN [err |-> "", v |-> DictHas(meta.v, Str(s_skip_save))]
        ELSE IF meta.t = "str" THEN [err |-> "", v |-> IsSubstring(s_skip_save, meta.v)]
        ELSE IF meta.t = "list"
             THEN [err |-> "", v |-> \E i \in 1..Len(meta.v) : meta.v[i] = Str(s_skip_save)]
        ELSE [err |-> "TypeError", v |-> FALSE]

\* mutant of detect: the peeked words compared as signed integers
detect_signed(f, magic) ==
    LET peek_be == unpack_I(f, Reader(0))
        peek_r64 == unpack_I(f, peek_be.rs)
        peek_ver == unpack_I(f, peek_r64.rs)
    IN  IF magic = RSRC THEN [err |-> "", headless |-> FALSE, start |-> 4]
        ELSE IF peek_ver.rs.err # ""
        THEN [err |-> peek_ver.rs.err, headless |-> FALSE, start |-> 0]
        ELSE IF /\ peek_be.v <= 1 /\ peek_r64.v <= 1
                /\ peek_ver.v >= 3 /\ peek_ver.v <= 5
        THEN [err |-> "", headless |-> TRUE, start |-> 0]
        ELSE [err |-> "ValueError", headless |-> FALSE, start |-> 0]

\* the headless check: [err, headless, start]
detect(f, magic) ==
    LET peek_be == unpack_I(f, Reader(0))
        peek_r64 == unpack_I(f, peek_be.rs)
        peek_ver == unpack_I(f, peek_r64.rs)
    IN  IF magic = RSRC THEN [err |-> "", headless |-> FALSE, start |-> 4]
        ELSE IF peek_ver.rs.err # ""
        THEN [err |-> peek_ver.rs.err, headless |-> FALSE, start |-> 0]
        ELSE IF /\ peek_be.v \in {0, 1} /\ peek_r64.v \in {0, 1}
                /\ peek_ver.v >= 3 /\ peek_ver.v <= 5
        THEN [err |-> "", headless |-> TRUE, start |-> 0]
        ELSE [err |-> "ValueError", headless |-> FALSE, start |-> 0]

using_uids(h) == h.version_major >= 4 /\ HasBit(h.flags, FORMAT_FLAG_UIDS)

\* version_major >= 4: after the flags word, the uid, the script class and
\* the reserved words
header_reserved(f, h) == [h EXCEPT !.rs = skip(f, h.rs, 4 * RESERVED_FIELDS)]
header_script_class(f, h) ==
    IF HasBit(h.flags, FORMAT_FLAG_HAS_SCRIPT_CLASS)
    THEN Get(f, h, "script_class", "unicode") ELSE h
header_uid(f, h) ==
    IF using_uids(h) THEN Get(f, h, "uid", "u64") ELSE [h EXCEPT !.rs = skip(f, h.rs, 8)]
header_flags(f, h) ==
    header_reserved(f, header_script_class(f, header_uid(f,
        [h EXCEPT !.rs.dbl = HasBit(h.flags, FORMAT_FLAG_REAL_T_IS_DOUBLE)])))

\* the flags block of version 4, or the 14 reserved words before it
header_block(f, h) ==
    IF h.version_major >= 4 THEN header_flags(f, Get(f, h, "flags", "u32"))
    ELSE [h EXCEPT !.rs = [skip(f, h.rs, 14 * 4) EXCEPT !.dbl = (h.use_real64 = 1)]]

\* r.big_endian = big_endian, then the fields up to importmd_ofs
header_fields(f, h) ==
    Get(f, Get(f, Get(f, Get(f, Get(f,
        [h EXCEPT !.rs.be = (h.big_endian = 1)],
        "version_major", "i32"), "version_minor", "i32"), "format_version", "i32"),
        "class_name", "unicode"), "importmd_ofs", "i64")

\* the header, from the endianness flag to the reserved words: what
\* parse_resource has read, h.rs being the reader
parse_header(f, rs0) ==
    header_block(f, header_fields(f,
        Get(f, Get(f, [rs |-> rs0, big_endian |-> 0, use_real64 |-> 0,
                       version_major |-> 0, version_minor |-> 0,
                       format_version |-> 0, class_name |-> << >>,
                       importmd_ofs |-> 0, flags |-> 0, uid |-> 0,
                       script_class |-> << >>, string_map |-> << >>,
                       internal_resources |-> << >>],
                   "big_endian", "i32"), "use_real64", "i32")))

\* string_map.append(r.get_unicode()), string_table_size times
string_map_read(h, m) ==
    [h EXCEPT !.string_map = [i \in 1..Len(m.v) |-> m.v[i].v], !.rs = m.rs]
parse_string_map(f, h) ==
    LET string_table_size == get_u32(f, h.rs)
    IN  string_map_read(h, get_unicodes(f, string_table_size.rs,
                                        Count(string_table_size.v)))

\* external_resources.append((ty, path, uid)), n times; the entries are not kept
RECURSIVE parse_external(_, _, _, _)
parse_external(f, rs, uids, n) ==
    IF n <= 0 \/ rs.err # "" THEN rs
    ELSE LET r1 == get_unicodes(f, rs, 2).rs
         IN  parse_external(f, IF uids THEN get_u64(f, r1).rs ELSE r1, uids, n - 1)

parse_externals(f, h) ==
    LET ext_resources_size == get_u32(f, h.rs)
    IN  [h EXCEPT !.rs = parse_external(f, ext_resources_size.rs, using_uids(h),
                                        Count(ext_resources_size.v))]

\* internal_resources.append((path, offset)), n times
RECURSIVE parse_internal(_, _, _)
parse_internal(f, rs, n) ==
    IF n <= 0 \/ rs.err # "" THEN [v |-> << >>, rs |-> rs]
    ELSE LET path == get_unicode(f, rs)
             offset == get_u64(f, path.rs)
             rest == parse_internal(f, offset.rs, n - 1)
         IN  [v |-> << <<path.v, offset.v>> >> \o rest.v, rs |-> rest.rs]

internal_entries(f, h, int_resources_size) ==
    Got(h, "internal_resources",
        parse_internal(f, int_resources_size.rs, Count(int_resources_size.v)))
parse_internals(f, h) == internal_entries(f, h, get_u32(f, h.rs))

\* properties[_parse_name()] = _parse_value(), n times
RECURSIVE parse_properties(_, _, _, _, _)
property_value(f, ctx, n, d, name) ==
    LET value == parse_value(f, name.rs, ctx)
    IN  IF value.rs.err # "" THEN [v |-> d, rs |-> value.rs]
        ELSE parse_properties(f, value.rs, ctx, n - 1, DictPut(d, name.v, value.v))
parse_properties(f, rs, ctx, n, d) ==
    IF n <= 0 \/ rs.err # "" THEN [v |-> d, rs |-> rs]
    ELSE property_value(f, ctx, n, d, parse_name(f, rs, ctx))

\* one internal resource: class name, property count, properties
object_read(class_name, properties) ==
    [class_name |-> class_name, properties |-> properties.v, rs |-> properties.rs]
parse_object(f, rs, ctx) ==
    LET class_name == get_unicode(f, rs)
        properties_count == get_i32(f, class_name.rs)
    IN  object_read(class_name.v,
                    parse_properties(f, properties_count.rs, ctx,
                                     properties_count.v, << >>))

\* u is [wrapped, compact, headless]
Resource(h, obj, u) ==
    [t |-> "Resource", version_major |-> h.version_major,
     version_minor |-> h.version_minor, format_version |-> h.format_version,
     importmd_ofs |-> h.importmd_ofs, class_name |-> obj.class_name,
     flags |-> h.flags, string_map |-> h.string_map, properties |-> obj.properties,
     was_compressed |-> u.wrapped, is_compact_header |-> u.compact,
     is_headless |-> u.headless]

\* the loop over internal_resources, from entry i on; main is main_resource
RECURSIVE select_main(_, _, _, _, _)
select_object(f, h, u, i, main, obj) ==
    LET mark == skip_marked(obj.properties)
    IN  IF obj.rs.err # "" THEN [v |-> main, rs |-> obj.rs]
        ELSE IF mark.err # "" THEN [v |-> main, rs |-> Fail(obj.rs, mark.err)]
        ELSE select_main(f, [h EXCEPT !.rs = obj.rs], u, i + 1,
                         IF ~mark.v /\ i = Len(h.internal_resources)
                         THEN Resource(h, obj, u) ELSE main)
select_main(f, h, u, i, main) ==
    IF i > Len(h.internal_resources) \/ h.rs.err # "" THEN [v |-> main, rs |-> h.rs]
    ELSE select_object(f, h, u, i, main,
                       parse_object(f, seek(f, h.rs, h.internal_resources[i][2]),
                                    [fmt |-> h.format_version, smap |-> h.string_map]))

\* the notices printed on the way
Notes(u) ==
    (IF u.wrapped /\ u.compact THEN <<"compact">> ELSE << >>)
    \o (IF u.headless THEN <<"headless">> ELSE << >>)

parsed(u, main) ==
    IF main.rs.err # "" THEN [status |-> main.rs.err, res |-> None, notes |-> Notes(u)]
    ELSE [status |-> "ok", res |-> main.v, notes |-> Notes(u)]

\* parse_resource from the header on, f being the plain stream
parse_plain(f, u, start) ==
    parsed(u, select_main(f,
                  parse_internals(f, parse_externals(f, parse_string_map(f,
                      parse_header(f, Reader(start))))),
                  u, 1, None))

\* mutant of handles_left: the except handler does not close file_obj
handles_left_noexcept(uw, wrapped, failed) ==
    LET opened == {"path"} \cup (IF wrapped /\ uw.buffer THEN {"decompressed_buffer"}
                                 ELSE {})
        switched == wrapped /\ uw.err = ""
        file_obj == IF switched THEN "decompressed_buffer" ELSE "path"
    IN  opened \ ((IF switched THEN {"path"} ELSE {})
                  \cup (IF failed THEN {} ELSE {file_obj}))

\* what parse_resource opened and has not closed when it exits: open(path)
\* and BytesIO() open; after the blocks are decompressed the file is closed
\* and file_obj becomes the buffer; file_obj.close() runs before the return
\* and in the except handler
handles_left(uw, wrapped, failed) ==
    LET opened == {"path"} \cup (IF wrapped /\ uw.buffer THEN {"decompressed_buffer"}
                                 ELSE {})
        switched == wrapped /\ uw.err = ""
        file_obj == IF switched THEN "decompressed_buffer" ELSE "path"
    IN  opened \ ((IF switched THEN {"path"} ELSE {}) \cup {file_obj})

\* p, what parse_resource returns or raises, with the handles left open
exit_path(p, uw, wrapped) ==
    p @@ [handles |-> handles_left(uw, wrapped, p.status # "ok")]

\* parse_resource after the wrapper, uw being what unwrap returned
parse_unwrapped(uw, wrapped) ==
    LET det == detect(uw.data, PySlice(uw.data, 0, 4))
    IN  exit_path(
            IF uw.err # "" \/ det.err # ""
            THEN [status |-> IF uw.err # "" THEN uw.err ELSE det.err, res |-> None,
                  notes |-> Notes([wrapped |-> wrapped, compact |-> uw.compact,
                                   headless |-> FALSE])]
            ELSE parse_plain(uw.data, [wrapped |-> wrapped, compact |-> uw.compact,
                                       headless |-> det.headless], det.start),
            uw, wrapped)

\* parse_resource on a file of bytes f0, z telling whether zstandard is
\* importable: [status, res, notes, handles], notes being the notices printed
parse_resource(f0, z) ==
    parse_unwrapped(IF PySlice(f0, 0, 4) = RSCC THEN unwrap(f0, z)
                    ELSE [err |-> "", data |-> f0, compact |-> FALSE, mode |-> 0,
                          buffer |-> FALSE],
                    PySlice(f0, 0, 4) = RSCC)

(***************************************************************************)
(* Writer, BinaryTranslate.__init__, _write_resource_data and save.  An    *)
(* object o is [hash_table, bucket_table, strings, locale, resource].      *)
(***************************************************************************)
store_i32(x, be) == WordBytes(x, be)
store_u32(x, be) == WordBytes(x, be)

\* struct.pack("<q" / ">q", x) of a value that fits a signed word
store_i64(x, be) ==
    LET ext == IF x < 0 THEN <<255, 255, 255, 255>> ELSE <<0, 0, 0, 0>>
    IN  IF be THEN ext \o WordBytes(x, be) ELSE WordBytes(x, be) \o ext

\* struct.pack("<Q" / ">Q", x) of a value below 2^31
store_u64(x, be) ==
    IF be THEN <<0, 0, 0, 0>> \o WordBytes(x, be) ELSE WordBytes(x, be) \o <<0, 0, 0, 0>>

store_unicode(x, be) ==
    LET encoded == encode(x) \o <<0>>
    IN  store_u32(Len(encoded), be) \o encoded

\* list.index: the 0-based position of the first match, -1 standing for ValueError
index(lst, x) ==
    IF \E i \in 1..Len(lst) : lst[i] = x
    THEN (CHOOSE i \in 1..Len(lst) : lst[i] = x /\ \A j \in 1..(i - 1) : lst[j] # x) - 1
    ELSE -1

\* the list, bytes or text a decoded value holds
Payload(val) == IF val.t \in {"list", "bytes", "str"} THEN val.v ELSE << >>

\* BinaryTranslate.__init__ on what parse_resource returned
construct(p) ==
    LET res == p.res
        props == res.properties
        status ==
            IF p.status # "ok" THEN p.status
            ELSE IF res.t = "None" THEN "AttributeError"
            ELSE IF res.class_name \notin ValidClasses THEN "Exception"
            ELSE IF \E k \in {s_hash_table, s_bucket_table, s_strings} : ~DictHas(props, k)
                 THEN "KeyError"
            ELSE "ok"
    IN  IF status # "ok"
        THEN [status |-> status, o |-> None, notes |-> p.notes, handles |-> p.handles]
        ELSE [status |-> "ok",
              o |-> [hash_table |-> Payload(DictGet(props, s_hash_table)),
                     bucket_table |-> Payload(DictGet(props, s_bucket_table)),
                     strings |-> Payload(DictGet(props, s_strings)),
                     locale |-> IF DictHas(props, s_locale)
                                THEN Payload(DictGet(props, s_locale)) ELSE s_en,
                     resource |-> res],
              notes |-> p.notes, handles |-> p.handles]

\* BinaryTranslate(path): [status, o, notes, handles]
BinaryTranslate(f, z) == construct(parse_resource(f, z))

\* _write_resource_data up to the string map
write_header(r) ==
    LET big_endian == FALSE
        use_real64 == FALSE
        be == big_endian
    IN  (IF r.is_headless THEN << >> ELSE RSRC)
        \o store_i32(IF big_endian THEN 1 ELSE 0, FALSE)
        \o store_i32(IF use_real64 THEN 1 ELSE 0, FALSE)
        \o store_i32(r.version_major, be) \o store_i32(r.version_minor, be)
        \o store_i32(r.format_version, be)
        \o store_unicode(r.class_name, be)
        \o store_i64(r.importmd_ofs, be)
        \o (IF r.version_major >= 4
            THEN store_u32(r.flags, be) \o store_u64(0, be)
                 \o Flatten([i \in 1..RESERVED_FIELDS |-> store_i32(0, be)])
            ELSE Flatten([i \in 1..14 |-> store_i32(0, be)]))
        \o store_u32(Len(r.string_map), be)
        \o Flatten([i \in 1..Len(r.string_map) |-> store_unicode(r.string_map[i], be)])

\* _write_resource_data: [err, data]
write_resource_data(o) ==
    LET r == o.resource
        be == FALSE
        tables == write_header(r) \o store_u32(0, be) \o store_u32(1, be)
                  \o store_unicode(s_local0, be)
        offset == Len(tables) + 8
        extra == 4 - (Len(o.strings) % 4)
    IN  IF \E k \in {s_locale, s_hash_table, s_bucket_table, s_strings} :
               index(r.string_map, k) < 0
        THEN [err |-> "ValueError", data |-> << >>]
        ELSE [err |-> "",
              data |->
                tables \o store_u64(offset, be)
                \o store_unicode(r.class_name, be) \o store_i32(4, be)
                \o store_u32(index(r.string_map, s_locale), be)
                \o store_u32(VARIANT_STRING, be) \o store_unicode(o.locale, be)
                \o store_u32(index(r.string_map, s_hash_table), be)
                \o store_u32(VARIANT_PACKED_INT32_ARRAY, be)
                \o store_u32(Len(o.hash_table), be)
                \o Flatten([i \in 1..Len(o.hash_table) |-> store_i32(o.hash_table[i], be)])
                \o store_u32(index(r.string_map, s_bucket_table), be)
                \o store_u32(VARIANT_PACKED_INT32_ARRAY, be)
                \o store_u32(Len(o.bucket_table), be)
                \o Flatten([i \in 1..Len(o.bucket_table) |->
                              store_i32(o.bucket_table[i], be)])
                \o store_u32(index(r.string_map, s_strings), be)
                \o store_u32(VARIANT_PACKED_BYTE_ARRAY, be)
                \o store_u32(Len(o.strings), be) \o o.strings
                \o (IF extra < 4 THEN [i \in 1..extra |-> 0] ELSE << >>)
                \o (IF r.is_headless THEN << >> ELSE RSRC)]

\* uncompressed_data[i:i+block_size] for i in range(0, total_size, block_size)
RECURSIVE Chunks(_, _)
Chunks(data, bs) ==
    IF data = << >> THEN << >>
    ELSE <<PySlice(data, 0, bs)>> \o Chunks(PySlice(data, bs, Len(data)), bs)

\* mutant of rewraps: a wrapper is written for every compressed original
rewraps_without_codec(r, z) == r.was_compressed

\* self.resource.was_compressed and zstd is not None
rewraps(r, z) == r.was_compressed /\ z

\* mutant of save_steps: the table holds the lengths of the plain chunks
save_steps_chunk_sizes(r, z, uncompressed_data) ==
    LET block_size == 4096
        total_size == Len(uncompressed_data)
        chunks == Chunks(uncompressed_data, block_size)
        compressed_blocks == [i \in 1..Len(chunks) |-> codec_compress(2, chunks[i])]
        block_sizes == [i \in 1..Len(chunks) |-> Len(chunks[i])]
        header ==
            IF r.is_compact_header
            THEN <<WordBytes(2, FALSE), WordBytes(block_size, FALSE),
                   WordBytes(total_size, FALSE)>>
            ELSE <<WordBytes(1, FALSE), WordBytes(2, FALSE),
                   WordBytes(block_size, FALSE), store_u64(total_size, FALSE)>>
    IN  IF rewraps(r, z)
        THEN <<[k |-> "write", b |-> RSCC]>>
             \o [i \in 1..Len(header) |-> [k |-> "write", b |-> header[i]]]
             \o [i \in 1..Len(chunks) |-> [k |-> "compress", b |-> << >>]]
             \o [i \in 1..Len(chunks) |->
                    [k |-> "write", b |-> WordBytes(block_sizes[i], FALSE)]]
             \o [i \in 1..Len(chunks) |-> [k |-> "write", b |-> compressed_blocks[i]]]
        ELSE <<[k |-> "write", b |-> uncompressed_data]>>

\* what save does with the file opened at path, in order: f.write(b) or
\* cctx.compress(chunk), whose result is written later
save_steps(r, z, uncompressed_data) ==
    LET block_size == 4096
        total_size == Len(uncompressed_data)
        chunks == Chunks(uncompressed_data, block_size)
        compressed_blocks == [i \in 1..Len(chunks) |-> codec_compress(2, chunks[i])]
        block_sizes == [i \in 1..Len(chunks) |-> Len(compressed_blocks[i])]
        header ==
            IF r.is_compact_header
            THEN <<WordBytes(2, FALSE), WordBytes(block_size, FALSE),
                   WordBytes(total_size, FALSE)>>
            ELSE <<WordBytes(1, FALSE), WordBytes(2, FALSE),
                   WordBytes(block_size, FALSE), store_u64(total_size, FALSE)>>
    IN  IF rewraps(r, z)
        THEN <<[k |-> "write", b |-> RSCC]>>
             \o [i \in 1..Len(header) |-> [k |-> "write", b |-> header[i]]]
             \o [i \in 1..Len(chunks) |-> [k |-> "compress", b |-> << >>]]
             \o [i \in 1..Len(chunks) |->
                    [k |-> "write", b |-> WordBytes(block_sizes[i], FALSE)]]
             \o [i \in 1..Len(chunks) |-> [k |-> "write", b |-> compressed_blocks[i]]]
        ELSE <<[k |-> "write", b |-> uncompressed_data]>>

\* save after _write_resource_data returned w.  open(path, "wb") empties the
\* file; step number fault raises (0: none does), the with statement closes
\* the file and the exception leaves save.  uncompressed_buffer is closed
\* once _write_resource_data has returned.
save_data(r, z, prev, w, fault) ==
    LET steps == save_steps(r, z, w.data)
        done == IF fault = 0 \/ fault > Len(steps) THEN Len(steps) ELSE fault - 1
    IN  IF w.err # ""
        THEN [status |-> w.err, out |-> prev, diag |-> << >>,
              handles |-> {"uncompressed_buffer"}]
        ELSE [status |-> IF done = Len(steps) THEN "ok"
                         ELSE IF steps[fault].k = "compress" THEN "zstd.ZstdError"
                         ELSE "OSError",
              out |-> Flatten([i \in 1..done |-> steps[i].b]),
              diag |-> IF rewraps(r, z) THEN <<"saving as RSCC">>
                       ELSE IF r.was_compressed /\ ~z
                       THEN <<"warning: saving uncompressed">> ELSE << >>,
              handles |-> {"uncompressed_buffer", "path"}
                          \ {"uncompressed_buffer", "path"}]

\* save: [status, out, diag, handles], out being the bytes of the file at path
\* afterwards and diag what is printed; prev is the content of the file at
\* path before the call
save(o, z, prev, fault) == save_data(o.resource, z, prev, write_resource_data(o), fault)


(***************************************************************************)
(* Containers as the engine writes them.  Specification SpecFile: a file   *)
(* is generated from the description cont, BinaryTranslate(path) loads it  *)
(* and save(path) writes the bytes out.                                    *)
(***************************************************************************)
MaxVariations == 2

s_Translation == <<84, 114, 97, 110, 115, 108, 97, 116, 105, 111, 110>>
s_res_path == <<114, 101, 115, 58, 47, 47, 116>>  \* "res://t"
s_local1 == <<108, 111, 99, 97, 108, 58, 47, 47, 49>>  \* "local://1"
s_fr == <<102, 114>>

\* the table every generated container carries: two buckets of one element,
\* the texts "éA" (stored raw) and "the" (stored compressed)
FileHashTable == <<0, 6>>
FileBucketTable == <<1, 5, 101, 0, 4, 4, 1, 6, 102, 4, 3, 4>>
FileStrings == <<195, 169, 65, 0, 1, 254, 0>>

\* a wrapper of mode -1 stands for a file without wrapper; marks tells, per
\* internal resource, whether its __meta__ carries the skip-on-save mark
Containers ==
    [kind : {"container"},
     wrapper : {[mode |-> m, compact |-> FALSE] : m \in -1..3}
               \cup {[mode |-> 2, compact |-> TRUE]},
     headless : BOOLEAN, big_endian : BOOLEAN,
     header : {"v3", "v4", "v4uid", "v4script"}, ext : 0..1,
     marks : {<<FALSE>>, <<TRUE>>, <<FALSE, TRUE>>, <<TRUE, FALSE>>, <<FALSE, FALSE>>},
     main_path : {s_local0, s_res_path}]

BaseContainer ==
    [kind |-> "container", wrapper |-> [mode |-> -1, compact |-> FALSE],
     headless |-> FALSE, big_endian |-> FALSE, header |-> "v3", ext |-> 0,
     marks |-> <<FALSE>>, main_path |-> s_local0]

\* in how many aspects a container and codec availability differ from the base
Variations(c, z) ==
    Cardinality({k \in DOMAIN c : c[k] # BaseContainer[k]}) + (IF z THEN 0 ELSE 1)

FileFlags(c) ==
    IF c.header = "v4uid" THEN FORMAT_FLAG_NAMED_SCENE_IDS + FORMAT_FLAG_UIDS
    ELSE IF c.header = "v4script"
         THEN FORMAT_FLAG_NAMED_SCENE_IDS + FORMAT_FLAG_HAS_SCRIPT_CLASS
    ELSE IF c.header = "v4" THEN FORMAT_FLAG_NAMED_SCENE_IDS ELSE 0

FileStringMap(c) ==
    <<s_locale, s_hash_table, s_bucket_table, s_strings>>
    \o (IF \E i \in 1..Len(c.marks) : c.marks[i] THEN <<s_meta>> ELSE << >>)

\* the locale of internal resource i: "en" for the last, "fr" before it
FileLocale(c, i) == IF i = Len(c.marks) THEN s_en ELSE s_fr

FileVersion(c) == IF c.header = "v3" THEN <<3, 5, 3>> ELSE <<4, 2, 5>>

W32(c, x) == WordBytes(x, c.big_endian)
W64(c, x) == IF c.big_endian THEN <<0, 0, 0, 0>> \o W32(c, x) ELSE W32(c, x) \o <<0, 0, 0, 0>>
Text(c, s) == W32(c, Len(encode(s)) + 1) \o encode(s) \o <<0>>

\* everything before the internal resource table
FileHead(c) ==
    (IF c.headless THEN << >> ELSE RSRC)
    \o WordBytes(IF c.big_endian THEN 1 ELSE 0, FALSE) \o W32(c, 0)
    \o W32(c, FileVersion(c)[1]) \o W32(c, FileVersion(c)[2]) \o W32(c, FileVersion(c)[3])
    \o Text(c, s_Translation) \o W64(c, 0)
    \o (IF c.header = "v3" THEN Flatten([i \in 1..14 |-> W32(c, 0)])
        ELSE W32(c, FileFlags(c)) \o W64(c, IF c.header = "v4uid" THEN 5 ELSE 0)
             \o (IF c.header = "v4script" THEN Text(c, <<83>>) ELSE << >>)
             \o Flatten([i \in 1..11 |-> W32(c, 0)]))
    \o W32(c, Len(FileStringMap(c)))
    \o Flatten([i \in 1..Len(FileStringMap(c)) |-> Text(c, FileStringMap(c)[i])])
    \o W32(c, c.ext)
    \o Flatten([i \in 1..c.ext |->
                  Text(c, <<82>>) \o Text(c, s_res_path)
                  \o (IF c.header = "v4uid" THEN W64(c, 9) ELSE << >>)])

\* the strings of a container: those of the table, followed by as many
\* unreferenced bytes as the description asks for
ContainerStrings(c) ==
    IF "padding" \in DOMAIN c THEN FileStrings \o [k \in 1..c.padding |-> 0]
    ELSE IF "table" \in DOMAIN c THEN c.table.strings
    ELSE FileStrings

\* the hash_table and bucket_table of a container: those the description
\* gives, the table every generated container carries otherwise
ContainerHashTable(c) ==
    IF "table" \in DOMAIN c THEN c.table.hash_table ELSE FileHashTable

ContainerBucketTable(c) ==
    IF "table" \in DOMAIN c THEN c.table.bucket_table ELSE FileBucketTable

FilePath(c, i) == IF i = Len(c.marks) THEN c.main_path ELSE s_local1

\* internal resource i: class name, property count, properties
FileBody(c, i) ==
    LET pad == 4 - (Len(ContainerStrings(c)) % 4)
    IN  Text(c, s_Translation) \o W32(c, IF c.marks[i] THEN 5 ELSE 4)
        \o W32(c, 0) \o W32(c, VARIANT_STRING) \o Text(c, FileLocale(c, i))
        \o W32(c, 1) \o W32(c, VARIANT_PACKED_INT32_ARRAY)
        \o W32(c, Len(ContainerHashTable(c)))
        \o Flatten([k \in 1..Len(ContainerHashTable(c)) |->
                      W32(c, ContainerHashTable(c)[k])])
        \o W32(c, 2) \o W32(c, VARIANT_PACKED_INT32_ARRAY)
        \o W32(c, Len(ContainerBucketTable(c)))
        \o Flatten([k \in 1..Len(ContainerBucketTable(c)) |->
                      W32(c, ContainerBucketTable(c)[k])])
        \o W32(c, 3) \o W32(c, VARIANT_PACKED_BYTE_ARRAY)
        \o W32(c, Len(ContainerStrings(c)))
        \o ContainerStrings(c) \o (IF pad < 4 THEN [k \in 1..pad |-> 0] ELSE << >>)
        \o (IF c.marks[i]
            THEN W32(c, 4) \o W32(c, VARIANT_DICTIONARY) \o W32(c, 1)
                 \o W32(c, VARIANT_STRING) \o Text(c, s_skip_save)
                 \o W32(c, VARIANT_BOOL) \o W32(c, 1)
            ELSE << >>)

\* the position in the plain stream at which internal resource i starts
FileOffset(c, i) ==
    Len(FileHead(c)) + 4
    + SumSeq([k \in 1..Len(c.marks) |-> Len(Text(c, FilePath(c, k))) + 8])
    + SumSeq([k \in 1..(i - 1) |-> Len(FileBody(c, k))])

PlainBytes(c) ==
    FileHead(c) \o W32(c, Len(c.marks))
    \o Flatten([i \in 1..Len(c.marks) |->
                  Text(c, FilePath(c, i)) \o W64(c, FileOffset(c, i))])
    \o Flatten([i \in 1..Len(c.marks) |-> FileBody(c, i)])
    \o (IF c.headless THEN << >> ELSE RSRC)

\* a wrapper around the plain stream with blocks of bs bytes; the blocks of
\* a mode without codec are filled like deflate blocks
WrapBlocks(mode, compact, bs, plain) ==
    LET chunks == Chunks(plain, bs)
        blocks == [i \in 1..Len(chunks) |->
                     codec_compress(IF mode \in 0..3 THEN mode ELSE 1, chunks[i])]
    IN  RSCC
        \o (IF compact
            THEN WordBytes(mode, FALSE) \o WordBytes(bs, FALSE)
                 \o WordBytes(Len(plain), FALSE)
            ELSE WordBytes(1, FALSE) \o WordBytes(mode, FALSE)
                 \o WordBytes(bs, FALSE) \o WordBytes(Len(plain), FALSE)
                 \o <<0, 0, 0, 0>>)
        \o Flatten([i \in 1..Len(chunks) |-> WordBytes(Len(blocks[i]), FALSE)])
        \o Flatten(blocks)

\* the file: the plain stream, or a wrapper around it with blocks of 256
\* bytes under a standard header, of 4096 under a compact one
Wrap(c, plain) ==
    IF c.wrapper.mode < 0 THEN plain
    ELSE WrapBlocks(c.wrapper.mode, c.wrapper.compact,
                    IF c.wrapper.compact THEN 4096 ELSE 256, plain)

ContainerBytes(c) == Wrap(c, PlainBytes(c))

InitFile ==
    /\ \E c \in Containers, z \in BOOLEAN :
          /\ Variations(c, z) <= MaxVariations
          /\ cont = c /\ zstd = z
          /\ file = ContainerBytes(c)
    /\ hash_table = << >> /\ bucket_table = << >> /\ strings = << >>
    /\ locale = << >> /\ resource = None
    /\ call = NoCall
    /\ written = [set |-> FALSE, ms |-> << >>]
    /\ out = << >> /\ diag = << >> /\ proc = NoProc
    /\ handles = {}

\* parse_resource(path) on the generated file
ParseResource ==
    /\ call.op = "none"
    /\ \E p \in {parse_resource(file, zstd)} :
          /\ call' = [op |-> "parse_resource", arg |-> << >>, status |-> p.status,
                      ret |-> <<p.res>>, m |-> 0]
          /\ diag' = p.notes
          /\ handles' = p.handles
    /\ UNCHANGED <<tableVars, resource, written, file, zstd, cont, out, proc>>

\* BinaryTranslate(path) on the generated file
Load ==
    /\ call.op \in {"none", "parse_resource"}
    /\ \E r \in {BinaryTranslate(file, zstd)} :
          /\ call' = [op |-> "BinaryTranslate", arg |-> << >>, status |-> r.status,
                      ret |-> << >>, m |-> 0]
          /\ diag' = r.notes
          /\ handles' = r.handles
          /\ IF r.status = "ok"
             THEN /\ hash_table' = r.o.hash_table
                  /\ bucket_table' = r.o.bucket_table
                  /\ strings' = r.o.strings
                  /\ locale' = r.o.locale
                  /\ resource' = r.o.resource
             ELSE UNCHANGED <<tableVars, resource>>
    /\ UNCHANGED <<written, file, zstd, cont, out, proc>>

\* save(path) on the loaded object, to a path that does not exist yet
Save ==
    /\ resource.t = "Resource"
    /\ \E r \in {save([hash_table |-> hash_table, bucket_table |-> bucket_table,
                       strings |-> strings, locale |-> locale, resource |-> resource],
                      zstd, << >>, 0)} :
          /\ call' = [op |-> "save", arg |-> << >>, status |-> r.status,
                      ret |-> << >>, m |-> 0]
          /\ out' = r.out
          /\ diag' = r.diag
          /\ handles' = r.handles
    /\ UNCHANGED <<tableVars, resource, written, file, zstd, cont, proc>>

NextFile == ParseResource \/ Load \/ Save

SpecFile == InitFile /\ [][NextFile]_vars

\* C7: loading a plain container and saving it at once writes the bytes of
\* the input.
C7_PlainRoundTrip ==
    (call.op = "save" /\ cont.wrapper.mode < 0) =>
        call.status = "ok" /\ out = file

\* the last internal resource without the skip-on-save mark, 0 if all have it
LastUnmarked(c) ==
    IF \A i \in 1..Len(c.marks) : c.marks[i] THEN 0
    ELSE CHOOSE i \in 1..Len(c.marks) :
            ~c.marks[i] /\ \A j \in (i + 1)..Len(c.marks) : c.marks[j]

\* C8: parse_resource returns the last internal resource whose __meta__ lacks
\* the skip-on-save mark, also when a marked one follows it.
C8_LastUnmarkedReturned ==
    (call.op = "parse_resource" /\ call.status = "ok" /\ LastUnmarked(cont) > 0) =>
        /\ call.ret[1].t = "Resource"
        /\ DictGet(call.ret[1].properties, s_locale)
               = Str(FileLocale(cont, LastUnmarked(cont)))

\* the bytes start with the magic of a compressed wrapper
IsWrapper(b) == PySlice(b, 0, 4) = RSCC

\* the mode word of a wrapper, which follows the version word unless the
\* header is compact
WrapperMode(b, compact) ==
    Word(PySlice(b, IF compact THEN 4 ELSE 8, IF compact THEN 8 ELSE 12), FALSE)

Warned == \E i \in 1..Len(diag) : diag[i] = "warning: saving uncompressed"

\* C10 as stated: save writes a wrapper only for an original of zstd mode 2;
\* an original of mode 1 or 3 is saved plain, with a diagnostic.
C10_WrapperOnlyForZstd ==
    (call.op = "save" /\ call.status = "ok") =>
        /\ IsWrapper(out) => cont.wrapper.mode = 2
        /\ cont.wrapper.mode \in {1, 3} => ~IsWrapper(out) /\ Warned

\* C10: save writes a wrapper exactly when the original was compressed, in
\* whichever mode, and a zstd codec is available, and the wrapper written is
\* of zstd mode 2; a compressed original saved without a codec is written
\* plain with a diagnostic, and only then is the diagnostic printed.
C10_WrapperWheneverCodec ==
    (call.op = "save" /\ call.status = "ok") =>
        /\ IsWrapper(out) <=> (cont.wrapper.mode >= 0 /\ zstd)
        /\ IsWrapper(out) => WrapperMode(out, cont.wrapper.compact) = 2
        /\ Warned <=> (cont.wrapper.mode >= 0 /\ ~zstd)
        /\ ~IsWrapper(out) => (cont.headless \/ PySlice(out, 0, 4) = RSRC)

\* a deflate original saved with a codec at hand comes out as a zstd wrapper
C10_Witness ==
    /\ call.op = "save" /\ call.status = "ok"
    /\ cont.wrapper.mode = 1 /\ zstd
    /\ IsWrapper(out) /\ WrapperMode(out, FALSE) = 2
    /\ ~Warned


(***************************************************************************)
(* Node paths: a stream holding one node-path value as the engine writes   *)
(* it, followed by the integer 7.  Specification SpecNodePath.             *)
(***************************************************************************)
MaxNames == 2
FormatVersions == 1..5

\* the names the references point at: "a" and "b"
NodePathMap == << <<97>>, <<98>> >>

\* one name reference: an index into the string map, or inline text ("n")
NameRef(k, inline) ==
    IF inline THEN WordBytes(-2147483647 - 1 + 2, FALSE) \o <<110, 0>>
    ELSE WordBytes(k % 2, FALSE)

HalfBytes(x) == <<x % 256, x \div 256>>

\* the engine stores name_count names and subname_count subnames and, before
\* format version 3, one more name for the property
NodePathBytes(c) ==
    WordBytes(VARIANT_NODE_PATH, FALSE) \o HalfBytes(c.name_count)
    \o HalfBytes(c.subnames + (IF c.absolute THEN 32768 ELSE 0))
    \o Flatten([k \in 1..(c.name_count + c.subnames
                          + (IF c.fmt < 3 THEN 1 ELSE 0)) |-> NameRef(k, c.inline)])

InitNodePath ==
    /\ \E fmt \in FormatVersions, nc \in 0..MaxNames, sc \in 0..MaxNames,
          ab \in BOOLEAN, inl \in BOOLEAN :
          cont = [kind |-> "node_path", fmt |-> fmt, name_count |-> nc,
                  subnames |-> sc, absolute |-> ab, inline |-> inl]
    /\ file = NodePathBytes(cont) \o WordBytes(VARIANT_INT, FALSE) \o WordBytes(7, FALSE)
    /\ hash_table = << >> /\ bucket_table = << >> /\ strings = << >>
    /\ locale = << >> /\ resource = None
    /\ call = NoCall
    /\ written = [set |-> FALSE, ms |-> << >>]
    /\ zstd = TRUE /\ out = << >> /\ diag = << >> /\ proc = NoProc
    /\ handles = {}

\* value = _parse_value() on the node path, then on what follows it
ParseNodePath ==
    /\ call.op = "none"
    /\ \E a \in {parse_value(file, Reader(0), [fmt |-> cont.fmt, smap |-> NodePathMap])} :
       \E b \in {parse_value(file, a.rs, [fmt |-> cont.fmt, smap |-> NodePathMap])} :
          call' = [op |-> "parse_value", arg |-> << >>,
                   status |-> IF a.rs.err = "" THEN "ok" ELSE a.rs.err,
                   ret |-> <<a.rs.names, a.rs.pos, b.v>>, m |-> 0]
    /\ UNCHANGED <<tableVars, written, fileVars>>

NextNodePath == ParseNodePath

SpecNodePath == InitNodePath /\ [][NextNodePath]_vars

\* C9: decoding a node-path value consumes name_count + subname_count + 1
\* name references when format_version < 3 and name_count + subname_count
\* when format_version >= 3, subname_count being the 16-bit count without
\* its high bit.
C9_NodePathNames ==
    call.op = "parse_value" =>
        /\ call.status = "ok"
        /\ call.ret[1] = cont.name_count + cont.subnames
                         + (IF cont.fmt < 3 THEN 1 ELSE 0)

\* an old-format path with the high bit set in its subname count: 2 + 1 + 1
\* references consumed, the cursor left on the value that follows
C9_Witness ==
    /\ call.op = "parse_value" /\ call.status = "ok"
    /\ cont.fmt = 2 /\ cont.absolute /\ cont.name_count = 2 /\ cont.subnames = 1
    /\ call.ret[1] = 4
    /\ call.ret[2] = Len(file) - 8
    /\ call.ret[3] = [t |-> "int", v |-> 7]

(***************************************************************************)
(* Streams without the plain magic.  Specification SpecStream: a stream    *)
(* of three little-endian words followed by the rest of a headless         *)
(* container, or a headless big-endian container as the engine lays it     *)
(* out, cut short or not, plain or inside a deflate wrapper.               *)
(***************************************************************************)
\* the words offered: 0, 1, 2 and 0xFFFFFFFF; the versions 2..6
PeekWords == {0, 1, 2, -1}
PeekVersions == 2..6

\* the lengths a stream is cut to; -1 leaves it whole
Cuts == {-1, 0, 8, 11, 12}

HeadlessContainer(ver, be) ==
    [BaseContainer EXCEPT !.headless = TRUE, !.big_endian = be,
                          !.header = IF ver >= 4 THEN "v4" ELSE "v3"]

StreamBytes(c) ==
    LET body == PlainBytes(HeadlessContainer(c.w3, c.engine_be))
        whole == IF c.engine_be THEN body
                 ELSE WordBytes(c.w1, FALSE) \o WordBytes(c.w2, FALSE)
                      \o WordBytes(c.w3, FALSE) \o PySlice(body, 12, Len(body))
    IN  IF c.cut < 0 THEN whole ELSE PySlice(whole, 0, c.cut)

InitStream ==
    /\ \E w1 \in PeekWords, w2 \in PeekWords, w3 \in PeekVersions, cut \in Cuts,
          wr \in BOOLEAN, be \in BOOLEAN :
          /\ be => (w1 = 1 /\ w2 = 0 /\ w3 \in 3..4)
          /\ cont = [kind |-> "stream", w1 |-> w1, w2 |-> w2, w3 |-> w3, cut |-> cut,
                     engine_be |-> be,
                     wrapper |-> [mode |-> IF wr THEN 1 ELSE -1, compact |-> FALSE]]
    /\ file = Wrap(cont, StreamBytes(cont))
    /\ hash_table = << >> /\ bucket_table = << >> /\ strings = << >>
    /\ locale = << >> /\ resource = None
    /\ call = NoCall
    /\ written = [set |-> FALSE, ms |-> << >>]
    /\ zstd = TRUE /\ out = << >> /\ diag = << >> /\ proc = NoProc
    /\ handles = {}

NextStream == ParseResource \/ Load

SpecStream == InitStream /\ [][NextStream]_vars

\* the stream parse_resource decodes: the file, or what its wrapper holds
PlainStream == IF IsWrapper(file) THEN unwrap(file, zstd).data ELSE file

\* word k of a stream, little-endian as the headless check unpacks it
PeekWord(s, k) == Word(SubSeq(s, 4 * k - 3, 4 * k), FALSE)

\* the first two words are each 0 or 1 and the third is an accepted version
HeadlessShaped(s) ==
    /\ Len(s) >= 12
    /\ PeekWord(s, 1) \in {0, 1} /\ PeekWord(s, 2) \in {0, 1}
    /\ PeekWord(s, 3) \in 3..5

DetectedHeadless == \E i \in 1..Len(diag) : diag[i] = "headless"

\* C11 as stated: a stream without the plain magic is decoded as headless
\* exactly when its first two words are each 0 or 1 and its third word is an
\* accepted version; every other such stream fails with the invalid-magic
\* error (ValueError) and returns no model.
C11_HeadlessOrInvalidMagic ==
    (call.op = "parse_resource" /\ PySlice(PlainStream, 0, 4) # RSRC) =>
        /\ DetectedHeadless <=> HeadlessShaped(PlainStream)
        /\ ~HeadlessShaped(PlainStream) =>
               call.status = "ValueError" /\ call.ret[1] = None

\* C11: as above for a stream of at least 12 bytes; a shorter stream fails
\* too and returns no model, with struct.error raised by the peek.
C11_HeadlessOrFails ==
    (call.op = "parse_resource" /\ PySlice(PlainStream, 0, 4) # RSRC) =>
        /\ DetectedHeadless <=> HeadlessShaped(PlainStream)
        /\ (call.status = "ok" /\ DetectedHeadless) => call.ret[1].is_headless
        /\ ~HeadlessShaped(PlainStream) =>
               /\ call.ret[1] = None
               /\ call.status = IF Len(PlainStream) >= 12 THEN "ValueError"
                                ELSE "struct.error"

\* a stream of 11 bytes out of a wrapper: the peek of the third word fails
C11_Witness ==
    /\ call.op = "parse_resource" /\ call.status = "struct.error"
    /\ IsWrapper(file) /\ Len(PlainStream) = 11
    /\ call.ret[1] = None /\ ~DetectedHeadless

(***************************************************************************)
(* The Reader on short streams.  Specification SpecReader: the file is a   *)
(* length word followed by the text "e-acute A" and its null, cut to any   *)
(* length; one Reader method is called at position 0 or 4.                 *)
(***************************************************************************)
MaxRead == 5

ReaderOps == {"read", "skip", "get_i32", "get_u32", "get_i64", "get_u64", "get_u16",
              "get_u8", "get_f32", "get_f64", "get_real", "get_unicode"}

\* the length words offered, the last being 0xFFFFFFFF
DeclaredLengths == {0, 1, 4, 6, -1}

ReaderText == <<195, 169, 65, 0>>

InitReader ==
    /\ \E be \in BOOLEAN, dbl \in BOOLEAN, length \in DeclaredLengths,
          cut \in 0..(4 + Len(ReaderText)), pos \in {0, 4} :
          /\ cont = [kind |-> "reader", big_endian |-> be, real_is_double |-> dbl,
                     length |-> length, cut |-> cut, pos |-> pos]
          /\ file = PySlice(WordBytes(length, be) \o ReaderText, 0, cut)
    /\ hash_table = << >> /\ bucket_table = << >> /\ strings = << >>
    /\ locale = << >> /\ resource = None
    /\ call = NoCall
    /\ written = [set |-> FALSE, ms |-> << >>]
    /\ zstd = TRUE /\ out = << >> /\ diag = << >> /\ proc = NoProc
    /\ handles = {}

\* the Reader of the file, its position at cont.pos
ReaderAt(c) ==
    [Reader(c.pos) EXCEPT !.be = c.big_endian, !.dbl = c.real_is_double]

\* the method op of the Reader called with the argument n: [v, rs]
reader_op(f, rs, op, n) ==
    IF op = "read" THEN read(f, rs, n)
    ELSE IF op = "skip" THEN [v |-> << >>, rs |-> skip(f, rs, n)]
    ELSE IF op = "get_i32" THEN get_i32(f, rs)
    ELSE IF op = "get_u32" THEN get_u32(f, rs)
    ELSE IF op = "get_i64" THEN get_i64(f, rs)
    ELSE IF op = "get_u64" THEN get_u64(f, rs)
    ELSE IF op = "get_u16" THEN get_u16(f, rs)
    ELSE IF op = "get_u8" THEN get_u8(f, rs)
    ELSE IF op = "get_f32" THEN [v |-> << >>, rs |-> get_f32(f, rs)]
    ELSE IF op = "get_f64" THEN [v |-> << >>, rs |-> get_f64(f, rs)]
    ELSE IF op = "get_real" THEN [v |-> << >>, rs |-> get_real(f, rs)]
    ELSE get_unicode(f, rs)

\* one call of a Reader method; call.arg is <<op, n>>, call.ret the value
\* returned and the position reached
ReaderCall ==
    /\ call.op = "none" /\ cont.kind = "reader"
    /\ \E op \in ReaderOps, n \in 0..MaxRead :
          /\ op \in {"read", "skip"} \/ n = 0
          /\ \E r \in {reader_op(file, ReaderAt(cont), op, n)} :
                call' = [op |-> "Reader", arg |-> <<op, n>>,
                         status |-> IF r.rs.err = "" THEN "ok" ELSE r.rs.err,
                         ret |-> <<r.v, r.rs.pos>>, m |-> 0]
    /\ UNCHANGED <<tableVars, written, fileVars>>

NextReader == ReaderCall

SpecReader == InitReader /\ [][NextReader]_vars

\* the bytes left at the Reader's position
Remaining == IF cont.pos > Len(file) THEN 0 ELSE Len(file) - cont.pos

\* the length word a get_unicode at the Reader's position reads; 0xFFFFFFFF
\* is more than any stream holds
LengthWord ==
    Word(SubSeq(file, cont.pos + 1, cont.pos + 4), cont.big_endian)

\* how many bytes the call asks for beyond the Reader's position
Wanted ==
    LET op == call.arg[1]
    IN  IF op \in {"read", "skip"} THEN call.arg[2]
        ELSE IF op \in {"get_i32", "get_u32", "get_f32"} THEN 4
        ELSE IF op \in {"get_i64", "get_u64", "get_f64"} THEN 8
        ELSE IF op = "get_real" THEN (IF cont.real_is_double THEN 8 ELSE 4)
        ELSE IF op = "get_u16" THEN 2
        ELSE IF op = "get_u8" THEN 1
        ELSE IF Remaining < 4 THEN 4
        ELSE IF LengthWord < 0 THEN 2147483647
        ELSE 4 + LengthWord

\* C12: a Reader call that asks for more bytes than the stream has left
\* fails; it does not return with a shortened result.
C12_ReadPastEndFails ==
    (call.op = "Reader" /\ Wanted > Remaining) => call.status # "ok"

(***************************************************************************)
(* main in single-file mode.  Specification SpecMain: the process is       *)
(* started with --export or --import (or neither) on a generated           *)
(* container; cont.messages are the rows of the CSV file of an import.     *)
(***************************************************************************)
\* the export branch, b being what BinaryTranslate(target_file) gave:
\* [exit, failed, printed, b, out]
main_export(c, b, f) ==
    LET g == IF b.status = "ok"
             THEN get_messages(b.o.hash_table, b.o.bucket_table, b.o.strings)
             ELSE [status |-> b.status, msgs |-> << >>]
    IN  IF ~c.exists
        THEN [exit |-> 1, failed |-> FALSE, printed |-> <<"Error: File not found">>,
              o |-> None, out |-> f, handles |-> {}]
        ELSE IF g.status # "ok"
        THEN [exit |-> 0, failed |-> TRUE,
              printed |-> b.notes \o <<"Error processing file", "Done!">>,
              o |-> b.o, out |-> f, handles |-> b.handles]
        ELSE [exit |-> 0, failed |-> FALSE,
              printed |-> b.notes \o <<"Successfully exported", "Done!">>,
              o |-> b.o, out |-> f, handles |-> b.handles]

\* resource.replace(messages); resource.locale = args.locale
main_replaced(o, r, loc) ==
    [o EXCEPT !.bucket_table = r.bucket_table, !.strings = r.strings, !.locale = loc]

\* resource.save(target_file) on the replaced object
main_save(c, b, f, o, sv) ==
    IF sv.status # "ok"
    THEN [exit |-> 1, failed |-> TRUE,
          printed |-> b.notes \o sv.diag \o <<"Error applying translation">>,
          o |-> o, out |-> sv.out, handles |-> b.handles \cup sv.handles]
    ELSE [exit |-> 0, failed |-> FALSE,
          printed |-> b.notes \o sv.diag \o <<"Applied translation", "Done!">>,
          o |-> o, out |-> sv.out, handles |-> b.handles \cup sv.handles]

\* the import branch
main_import(c, b, z, f) ==
    LET r == IF b.status = "ok"
             THEN replace(b.o.hash_table, b.o.bucket_table, b.o.strings, c.messages)
             ELSE [status |-> b.status]
    IN  IF ~c.exists
        THEN [exit |-> 1, failed |-> FALSE,
              printed |-> <<"Error: Target file not found">>, o |-> None, out |-> f,
              handles |-> {}]
        ELSE IF r.status # "ok"
        THEN [exit |-> 1, failed |-> TRUE,
              printed |-> b.notes \o <<"Error applying translation">>,
              o |-> b.o, out |-> f, handles |-> b.handles]
        ELSE main_save(c, b, f, main_replaced(b.o, r, c.locale),
                       save(main_replaced(b.o, r, c.locale), z, f, 0))

\* main(): the branch of the arguments, then "Done!" and exit status 0 unless
\* sys.exit was called
main(c, b, z, f) ==
    IF c.mode = "export" THEN main_export(c, b, f)
    ELSE IF c.mode = "import" THEN main_import(c, b, z, f)
    ELSE [exit |-> 0, failed |-> FALSE, printed |-> <<"usage", "Done!">>,
          o |-> None, out |-> f, handles |-> {}]

\* the CSV rows offered to an import: one, two or three translations
ImportRows == {<< <<233>> >>, << <<233>>, << >> >>, << <<233>>, << >>, <<233>> >>}

InitMain ==
    /\ \E c \in Containers, z \in BOOLEAN, mode \in {"export", "import", "help"},
          exists \in BOOLEAN, ms \in ImportRows :
          /\ Variations(c, z) <= MaxVariations
          /\ mode # "import" => ms = << <<233>>, << >> >>
          /\ (~exists \/ mode = "help") => (c = BaseContainer /\ z)
          /\ cont = [c EXCEPT !.kind = "main"] @@
                    [mode |-> mode, exists |-> exists, messages |-> ms, locale |-> s_fr]
          /\ zstd = z
          /\ file = ContainerBytes(c)
    /\ hash_table = << >> /\ bucket_table = << >> /\ strings = << >>
    /\ locale = << >> /\ resource = None
    /\ call = NoCall
    /\ written = [set |-> FALSE, ms |-> << >>]
    /\ out = << >> /\ diag = << >>
    /\ proc = [pc |-> "start", exit |-> 0, failed |-> FALSE]
    /\ handles = {}

\* one run of the process, from its start to its exit
Main ==
    /\ proc.pc = "start"
    /\ \E b \in {BinaryTranslate(file, zstd)} : \E r \in {main(cont, b, zstd, file)} :
          /\ proc' = [pc |-> "exited", exit |-> r.exit, failed |-> r.failed]
          /\ diag' = r.printed
          /\ call' = [op |-> "main", arg |-> <<cont.mode>>,
                      status |-> IF r.failed THEN "failed" ELSE "ok",
                      ret |-> << >>, m |-> 0]
          /\ file' = r.out
          /\ handles' = r.handles
          /\ IF r.o # None
             THEN /\ hash_table' = r.o.hash_table
                  /\ bucket_table' = r.o.bucket_table
                  /\ strings' = r.o.strings
                  /\ locale' = r.o.locale
                  /\ resource' = r.o.resource
             ELSE UNCHANGED <<tableVars, resource>>
    /\ UNCHANGED <<written, zstd, cont, out>>

NextMain == Main

SpecMain == InitMain /\ [][NextMain]_vars

\* an error line was printed
Reported == \E i \in 1..Len(diag) : diag[i] \in {"Error processing file",
                                                 "Error applying translation"}

\* C13: a process whose export or import failed while processing the
\* container has reported the failure and exits with a non-zero status.
C13_FailureExitsNonZero ==
    (proc.pc = "exited" /\ proc.failed) => (Reported /\ proc.exit # 0)

(***************************************************************************)
(* save over the file that was loaded, as main calls it, with a step of    *)
(* save that raises.  Specification SpecSave.                              *)
(***************************************************************************)
MaxFault == 8

\* resource.save(target_file); step number fault of save raises, none if 0
SaveOver ==
    /\ resource.t = "Resource"
    /\ call.op # "save"
    /\ \E fault \in 0..MaxFault :
       \E r \in {save([hash_table |-> hash_table, bucket_table |-> bucket_table,
                       strings |-> strings, locale |-> locale, resource |-> resource],
                      zstd, file, fault)} :
          /\ call' = [op |-> "save", arg |-> <<fault>>, status |-> r.status,
                      ret |-> << >>, m |-> 0]
          /\ out' = r.out
          /\ diag' = r.diag
          /\ handles' = r.handles
    /\ UNCHANGED <<tableVars, resource, written, file, zstd, cont, proc>>

NextSave == ParseResource \/ Load \/ SaveOver

SpecSave == InitFile /\ [][NextSave]_vars

\* the container save writes when none of its steps raises
CompleteOutput ==
    save([hash_table |-> hash_table, bucket_table |-> bucket_table,
          strings |-> strings, locale |-> locale, resource |-> resource],
         zstd, file, 0).out

\* C14: whether save returned or raised, the file at path is what it was
\* before the call or the complete new container.
C14_NoPartialOutput ==
    call.op = "save" => (out = file \/ out = CompleteOutput)

WrapperModes == {0, 1, 2, 3, 4, 7, -1}

\* the block sizes offered besides the length of the plain stream
BlockSizes == {64, 100, 256, 4096}

InitWrapper ==
    /\ \E mode \in WrapperModes, compact \in BOOLEAN, z \in BOOLEAN,
          bs \in BlockSizes \cup {Len(PlainBytes(BaseContainer))} :
          /\ compact => (mode = 2 /\ bs = 4096)
          /\ cont = [BaseContainer EXCEPT !.kind = "wrapper",
                         !.wrapper = [mode |-> mode, compact |-> compact]]
                    @@ [block_size |-> bs]
          /\ zstd = z
          /\ file = WrapBlocks(mode, compact, bs, PlainBytes(BaseContainer))
    /\ hash_table = << >> /\ bucket_table = << >> /\ strings = << >>
    /\ locale = << >> /\ resource = None
    /\ call = NoCall
    /\ written = [set |-> FALSE, ms |-> << >>]
    /\ out = << >> /\ diag = << >> /\ proc = NoProc
    /\ handles = {}

NextWrapper == ParseResource \/ Load

SpecWrapper == InitWrapper /\ [][NextWrapper]_vars

\* a codec for the mode is at hand
Decodable == cont.wrapper.mode \in {1, 3} \/ (cont.wrapper.mode = 2 /\ zstd)

\* C16: a compressed container of mode 0, of a mode other than 1, 2 and 3,
\* or of mode 2 without the zstd codec fails with the error of its mode and
\* gives no model; for modes 1, 2 and 3 the ceil(total_size / block_size)
\* blocks are decompressed and concatenated in order into the plain stream,
\* which is then decoded.
C16_ModesAndBlocks ==
    call.op = "parse_resource" =>
        /\ ~Decodable =>
               /\ call.status = IF cont.wrapper.mode = 2 THEN "ImportError"
                                ELSE "ValueError"
               /\ call.ret[1] = None
               /\ unwrap(file, zstd).err = call.status
        /\ Decodable =>
               /\ unwrap(file, zstd).err = ""
               /\ unwrap(file, zstd).data = PlainBytes(BaseContainer)
               /\ call.status = "ok" /\ call.ret[1].t = "Resource"
               /\ call.ret[1].was_compressed

\* a gzip container of six blocks of 64 bytes decodes to the model
C16_Witness ==
    /\ call.op = "parse_resource" /\ call.status = "ok"
    /\ cont.wrapper.mode = 3 /\ cont.block_size = 64
    /\ BlockCount(Len(PlainBytes(BaseContainer)), 64) > 2
    /\ call.ret[1].t = "Resource"
    /\ DictGet(call.ret[1].properties, s_strings) = [t |-> "bytes", v |-> FileStrings]

(***************************************************************************)
(* Saving a large compressed container.  Specification SpecRewrap: the     *)
(* base container with unreferenced bytes appended to its strings, so that *)
(* the plain stream fills one, two or three blocks of 4096 bytes, inside a *)
(* wrapper; BinaryTranslate(path) loads it and save(path) writes it out.   *)
(***************************************************************************)
\* the numbers of bytes appended: the plain stream written for a container
\* with magic is 332, 4096, 4100, 8192 and 8196 bytes long, 8 bytes less
\* for a headless one
Paddings == {0, 3765, 3769, 7861, 7865}

InitRewrap ==
    /\ \E w \in {[mode |-> m, compact |-> FALSE] : m \in 1..3}
                \cup {[mode |-> 2, compact |-> TRUE]},
          headless \in BOOLEAN, header \in {"v3", "v4"}, padding \in Paddings,
          z \in BOOLEAN :
          /\ cont = [BaseContainer EXCEPT !.kind = "rewrap", !.wrapper = w,
                         !.headless = headless, !.header = header]
                    @@ [padding |-> padding]
          /\ zstd = z
          /\ file = ContainerBytes(cont)
    /\ hash_table = << >> /\ bucket_table = << >> /\ strings = << >>
    /\ locale = << >> /\ resource = None
    /\ call = NoCall
    /\ written = [set |-> FALSE, ms |-> << >>]
    /\ out = << >> /\ diag = << >> /\ proc = NoProc
    /\ handles = {}

NextRewrap == Load \/ Save

SpecRewrap == InitRewrap /\ [][NextRewrap]_vars

\* the little-endian word at byte offset k of b
WordAt(b, k) == Word(SubSeq(b, k + 1, k + 4), FALSE)

\* the plain bytes of the loaded object
PlainWritten ==
    write_resource_data([hash_table |-> hash_table, bucket_table |-> bucket_table,
                         strings |-> strings, locale |-> locale,
                         resource |-> resource]).data

\* the offset at which the block-size table of out starts
TableStart == IF resource.is_compact_header THEN 16 ELSE 24

\* entry i of the block-size table of out
TableEntry(i) == WordAt(out, TableStart + 4 * (i - 1))

\* the offset of block i of out, the table having n entries
BlockStart(i, n) == TableStart + 4 * n + SumSeq([k \in 1..(i - 1) |-> TableEntry(k)])

\* C17: when save re-wraps a container, the header written has the shape of
\* the original's (compact: mode, block_size, 32-bit total_size; standard:
\* version, mode, block_size, 64-bit total_size), block_size is 4096,
\* total_size is the length of the plain bytes, the table has exactly
\* ceil(total_size / 4096) entries and entry i is the length of the i-th
\* compressed block after the table.
C17_RewrapHeaderAndTable ==
    (call.op = "save" /\ resource.was_compressed /\ zstd) =>
        /\ call.status = "ok"
        /\ SubSeq(out, 1, 4) = RSCC
        /\ resource.is_compact_header = cont.wrapper.compact
        /\ IF cont.wrapper.compact
           THEN /\ WordAt(out, 4) = 2 /\ WordAt(out, 8) = 4096
                /\ WordAt(out, 12) = Len(PlainWritten)
           ELSE /\ WordAt(out, 4) = 1 /\ WordAt(out, 8) = 2
                /\ WordAt(out, 12) = 4096
                /\ WordAt(out, 16) = Len(PlainWritten) /\ WordAt(out, 20) = 0
        /\ \A i \in 1..BlockCount(Len(PlainWritten), 4096) :
              PySlice(out, BlockStart(i, BlockCount(Len(PlainWritten), 4096)),
                      BlockStart(i + 1, BlockCount(Len(PlainWritten), 4096)))
              = codec_compress(2, PySlice(PlainWritten, 4096 * (i - 1), 4096 * i))
        /\ Len(out) = BlockStart(BlockCount(Len(PlainWritten), 4096) + 1,
                                 BlockCount(Len(PlainWritten), 4096))

\* a compact container of 8196 plain bytes is saved as three blocks, the
\* last holding 4 bytes
C17_Witness ==
    /\ call.op = "save" /\ call.status = "ok" /\ zstd
    /\ cont.wrapper.compact /\ resource.was_compressed
    /\ Len(PlainWritten) = 8196
    /\ TableEntry(1) = 4097 /\ TableEntry(3) = 5
    /\ Len(out) = 16 + 12 + 8199

(***************************************************************************)
(* 64-bit integers.  Specification SpecInt64: the Writer stores a 64-bit   *)
(* value, held as its high and low words, and the Reader gets it back in   *)
(* the same byte order.                                                    *)
(***************************************************************************)
\* the high and low words offered, -1 being 0xFFFFFFFF and -2147483647 - 1
\* being 0x80000000
HighWords == {0, 1, 2147483647, -1}
LowWords == {0, 5, 332, 2147483647, -2147483647 - 1, -1}

\* struct.pack("<q" / ">q" / "<Q" / ">Q", x), x having the words hi and lo
pack_q(hi, lo, be) ==
    IF be THEN WordBytes(hi, TRUE) \o WordBytes(lo, TRUE)
    ELSE WordBytes(lo, FALSE) \o WordBytes(hi, FALSE)

InitInt64 ==
    /\ \E hi \in HighWords, lo \in LowWords, be \in BOOLEAN :
          cont = [kind |-> "int64", hi |-> hi, lo |-> lo, big_endian |-> be]
    /\ file = << >> /\ zstd = TRUE
    /\ hash_table = << >> /\ bucket_table = << >> /\ strings = << >>
    /\ locale = << >> /\ resource = None
    /\ call = NoCall
    /\ written = [set |-> FALSE, ms |-> << >>]
    /\ out = << >> /\ diag = << >> /\ proc = NoProc
    /\ handles = {}

\* Writer.store_i64(x) / Writer.store_u64(x) into an empty file; store_u64
\* takes the words as an unsigned value, store_i64 as a signed one
Store64 ==
    /\ call.op = "none" /\ cont.kind = "int64"
    /\ \E op \in {"store_i64", "store_u64"} :
          call' = [op |-> "Writer", arg |-> <<op>>, status |-> "ok",
                   ret |-> << >>, m |-> 0]
    /\ file' = pack_q(cont.hi, cont.lo, cont.big_endian)
    /\ UNCHANGED <<tableVars, resource, written, zstd, cont, out, diag, proc, handles>>

\* Reader.get_i64() / Reader.get_u64() on the file just written, from its start
Get64 ==
    /\ call.op = "Writer"
    /\ \E r \in {IF call.arg[1] = "store_i64"
                 THEN get_i64(file, [Reader(0) EXCEPT !.be = cont.big_endian])
                 ELSE get_u64(file, [Reader(0) EXCEPT !.be = cont.big_endian])} :
          call' = [op |-> "Reader",
                   arg |-> <<IF call.arg[1] = "store_i64" THEN "get_i64" ELSE "get_u64">>,
                   status |-> IF r.rs.err = "" THEN "ok" ELSE r.rs.err,
                   ret |-> <<r.v, r.rs.pos>>, m |-> 0]
    /\ UNCHANGED <<tableVars, resource, written, file, zstd, cont, out, diag, proc,
                   handles>>

NextInt64 == Store64 \/ Get64

SpecInt64 == InitInt64 /\ [][NextInt64]_vars

\* the high word of the 64-bit value that the word v returned stands for:
\* the sign of a signed result, 0 for an unsigned one
HighOf(v, signed) == IF signed /\ v < 0 THEN -1 ELSE 0

\* C18: get_i64 and get_u64 consume 8 bytes and return the integer that all
\* 8 bytes encode in the byte order of the stream, so that the value stored
\* by store_i64 / store_u64 is the value read back.
C18_Int64RoundTrip ==
    (call.op = "Reader" /\ cont.kind = "int64") =>
        /\ call.status = "ok"
        /\ call.ret[2] = 8
        /\ call.ret[1] = cont.lo
        /\ HighOf(call.ret[1], call.arg[1] = "get_i64") = cont.hi

(***************************************************************************)
(* Decoding what was written.  Specification SpecRedecode: a generated     *)
(* container is loaded, _write_resource_data writes the object into a      *)
(* buffer and parse_resource decodes a file holding the bytes of the       *)
(* buffer.                                                                 *)
(***************************************************************************)
\* _write_resource_data(buffer) on the loaded object, then parse_resource on
\* the bytes written
Redecode ==
    /\ resource.t = "Resource" /\ call.op = "BinaryTranslate"
    /\ \E w \in {write_resource_data([hash_table |-> hash_table,
                                      bucket_table |-> bucket_table,
                                      strings |-> strings, locale |-> locale,
                                      resource |-> resource])} :
          /\ w.err = ""
          /\ out' = w.data
          /\ \E p \in {parse_resource(w.data, zstd)} :
                /\ call' = [op |-> "redecode", arg |-> << >>, status |-> p.status,
                            ret |-> <<p.res>>, m |-> 0]
                /\ diag' = p.notes
                /\ handles' = p.handles
    /\ UNCHANGED <<tableVars, resource, written, file, zstd, cont, proc>>

NextRedecode == Load \/ Redecode

SpecRedecode == InitFile /\ [][NextRedecode]_vars

\* the model m carries the class name, the version fields and the tables of
\* the loaded object
SameModel(m) ==
    /\ m.t = "Resource"
    /\ m.class_name = resource.class_name
    /\ m.version_major = resource.version_major
    /\ m.version_minor = resource.version_minor
    /\ m.format_version = resource.format_version
    /\ DictHas(m.properties, s_hash_table)
    /\ DictGet(m.properties, s_hash_table) = [t |-> "list", v |-> hash_table]
    /\ DictHas(m.properties, s_bucket_table)
    /\ DictGet(m.properties, s_bucket_table) = [t |-> "list", v |-> bucket_table]
    /\ DictHas(m.properties, s_strings)
    /\ DictGet(m.properties, s_strings) = [t |-> "bytes", v |-> strings]
    /\ DictHas(m.properties, s_locale)
    /\ DictGet(m.properties, s_locale) = Str(locale)

\* C20: the plain bytes that _write_resource_data writes for a model decoded
\* from a valid container, of any version and flags and headless or not,
\* decode again with parse_resource to a model with the same class name,
\* version fields, hash_table, bucket_table, strings and locale.
C20_WrittenBytesDecodeAgain ==
    call.op = "redecode" => (call.status = "ok" /\ SameModel(call.ret[1]))

(***************************************************************************)
(* One model under every operation.  Specification SpecModel: a plain      *)
(* container carrying one of the tables of InitTable has been loaded with  *)
(* BinaryTranslate(path); get_messages, replace and save are then called   *)
(* on the object in any order, save also failing at its write.             *)
(***************************************************************************)
\* the container that carries the table (ht, bt, st)
TableContainer(ht, bt, st) ==
    BaseContainer @@ [table |-> [hash_table |-> ht, bucket_table |-> bt, strings |-> st]]

\* the tables loaded, by the number of elements of the bucket of each slot
\* (-1: the slot is empty): no element, one, two in one bucket behind an
\* empty slot, an empty bucket before a bucket of one, two buckets of one
ModelShapes == {<<-1, -1>>, <<1, -1>>, <<-1, 2>>, <<0, 1>>, <<1, 1>>}

InitModel ==
    /\ \E shape \in ModelShapes, rev \in BOOLEAN :
         \E texts \in [1..ElemsBefore(shape, Len(shape) + 1) -> 1..Len(Catalogue)] :
         \E c \in {TableContainer(MakeHashTable(shape),
                                  MakeBucketTable(shape, texts, rev),
                                  MakeStrings(texts, rev))} :
         \E b \in {BinaryTranslate(ContainerBytes(c), TRUE)} :
            /\ b.status = "ok"
            /\ file = ContainerBytes(c)
            /\ hash_table = b.o.hash_table
            /\ bucket_table = b.o.bucket_table
            /\ strings = b.o.strings
            /\ locale = b.o.locale
            /\ resource = b.o.resource
            /\ cont = [kind |-> "model",
                       m |-> ElemCount(b.o.hash_table, b.o.bucket_table)]
    /\ call = NoCall
    /\ written = [set |-> FALSE, ms |-> << >>]
    /\ zstd = TRUE
    /\ out = << >> /\ diag = << >> /\ proc = NoProc
    /\ handles = {}

NextModel == GetMessages \/ Replace \/ Reimport \/ Save \/ SaveOver

SpecModel == InitModel /\ [][NextModel]_vars

\* C21: across any sequence of get_messages, save and replace calls,
\* successful or failed, on one model, hash_table never changes, the length
\* of bucket_table never changes, get_messages returns as many strings as
\* the table had elements when it was loaded, and get_messages and save
\* change none of hash_table, bucket_table, strings and locale.
C21_ModelInvariants ==
    [][/\ hash_table' = hash_table
       /\ Len(bucket_table') = Len(bucket_table)
       /\ get_messages(hash_table', bucket_table', strings').status = "ok"
       /\ Len(get_messages(hash_table', bucket_table', strings').msgs) = cont.m
       /\ call'.op = "get_messages" =>
             (call'.status = "ok" /\ Len(call'.ret) = cont.m)
       /\ call'.op \in {"get_messages", "save"} =>
             /\ bucket_table' = bucket_table
             /\ strings' = strings
             /\ locale' = locale]_vars

\* a table of two elements has been given three messages by replace and is
\* then saved; it still reads as two messages
C21_Witness ==
    /\ cont.kind = "model" /\ cont.m = 2
    /\ call.op = "save" /\ call.status = "ok" /\ out # << >>
    /\ written.set /\ Len(written.ms) = 3
    /\ Len(get_messages(hash_table, bucket_table, strings).msgs) = 2
    /\ strings = new_strings(written.ms)

====
